---------------------------- MODULE Spec2Model ----------------------------
(***************************************************************************)
(* State-machine model of the skchat secure-communication core.            *)
(*                                                                         *)
(*   Spec      GroupChat used by one caller at a time (group.py)           *)
(*   SpecRollback  the same, with key_version also assigned by the caller  *)
(*   SpecConc  remove_member / rotate_key / compose_group_message run by   *)
(*             concurrent callers, one field read or write per step        *)
(*   SpecFiles FileSender / FileReceiver chunked transfer (files.py)       *)
(*   SpecDelivery   receive_chunk called by concurrent threads             *)
(*   SpecReactions  two ReactionManagers that exchange their events        *)
(*   SpecInbox      send_message, the wire and poll_inbox of the receiver  *)
(*   SpecScope GroupChat under add_member / remove_member / set_tool_scope *)
(*   SpecKeys  GroupKeyDistributor on members with and without PGP keys    *)
(*   SpecEphemeral  ChatHistory and MessageReaper over one memory store    *)
(*             (history.py, ephemeral.py)                                  *)
(*   SpecReaper     the same when store calls fail or the process dies     *)
(*   SpecSweeping   a sweep that runs step by step next to store_message   *)
(*   SpecTransport  ChatTransport.send_message (transport.py, crypto.py)   *)
(*   SpecCipher     GroupMessageEncryptor.encrypt / decrypt (group.py)     *)
(*   SpecCrypto     ChatCrypto encrypt / decrypt / sign / verify           *)
(*             (crypto.py)                                                 *)
(*                                                                         *)
(* Modelling conventions                                                   *)
(*  - os.urandom is an ideal entropy source: every draw yields a value     *)
(*    that was not drawn before.  `entropy` counts the draws made so far   *)
(*    and the n-th draw is the number n.                                   *)
(*  - AES-256-GCM is an ideal authenticated cipher: a ciphertext opens     *)
(*    under the key that sealed it, and under no other key.  The           *)
(*    ImportError fall-backs of group.py / files.py are unreachable: the   *)
(*    package imports pgpy at load time (crypto.py:16), and pgpy needs     *)
(*    the cryptography package.                                            *)
(*  - PGP encryption (pgpy) is ideal as well: a PGP message names the key  *)
(*    it was encrypted to, and pgpy raises on text that is no key.         *)
(*  - SHA-256 is an ideal hash: distinct inputs give distinct digests.     *)
(*  - Timestamps (created_at, updated_at, joined_at) and display-only      *)
(*    fields (name, description, display_name, participant_type) are not   *)
(*    part of the state: no operation reads them.                          *)
(***************************************************************************)
EXTENDS Integers, Sequences, FiniteSets, TLC

(***************************************************************************)
(* Bounds of the model.                                                    *)
(***************************************************************************)
\* keys are drawn (at creation and at each rotation) while fewer than this many
\* have been drawn
MaxDraws == 3
\* the values a caller assigns to key_version are 1..MaxVersion
MaxVersion == 2
\* GroupMessageEncryptor.encrypt is called while fewer than this many calls were made
MaxSealed == 2
\* messages are composed while message_count is below this value
MaxMsgs == 1
\* files of 0..MaxFileSize bytes are sent
MaxFileSize == 3
\* with a chunk_size of 1..MaxChunkSize bytes
MaxChunkSize == 2
\* the clock runs from 0 to MaxTime seconds
MaxTime == 2
\* a message is stored while the store has given out fewer than this many ids,
\* and a sweep is started while it has given out at most this many
MaxIds == 2
\* the ReactionEvents that are created in a run
MaxEvents == 4

(***************************************************************************)
(* Input domains.                                                          *)
(***************************************************************************)
\* Python's None (a record, so that it compares with member and message records)
None == [none |-> TRUE]
Identities == {"alice", "bob", "carol"}
\* MemberRole
Roles == {"admin", "member", "observer"}
ToolNames == {"sksecurity.audit", "skmemory.search"}
\* tool_scope arguments: the empty list (unrestricted) and an allow-list
Scopes == {<<>>, <<"sksecurity.audit">>}
Plaintexts == {"hello", "bye"}
\* content argument of compose_group_message
Contents == {"hello"}

VARIABLES
    \* ---- GroupChat fields
    members,        \* list of GroupMember records, in insertion order
    group_key,      \* current symmetric key
    key_version,    \* version counter of the key
    message_count,  \* messages composed in the group
    \* ---- environment
    entropy,        \* number of os.urandom draws made so far
    \* ---- observation of the run
    keyLog,         \* the <<key_version, group_key>> pairs installed, in order
    call,           \* the last operation called, its argument and what it returned
    \* ---- concurrent callers of one GroupChat (SpecConc)
    pc,             \* where each remove_member caller stands
    rm_arg,         \* identity_uri each caller was given
    rm_before,      \* its local `before`
    rm_kept,        \* the filtered list it built and has yet to store
    rm_removed,     \* its local `removed`, which it returns
    rk_key,         \* the key its rotate_key drew
    rk_version,     \* the key_version its rotate_key loaded for the increment
    rd_pc,          \* where the compose_group_message caller stands
    rd_message,     \* the message it composed: key_version as written in the metadata
    rd_key,         \* the group_key in force when that key_version was read
    \* ---- file transfer: the sender's side (SpecFiles)
    file,           \* bytes of the file being sent
    sender_pc,      \* "start", then "prepared" (prepare ran), then "chunked"
    transfer,       \* the FileTransfer that prepare returned
    sent,           \* the FileChunks that chunks returned, in order
    \* ---- file transfer: FileReceiver
    private_key_armor,   \* the receiver's private key ("" when it has none)
    receiver_transfers,  \* _transfers[transfer_id]: the registered FileTransfer
    receiver_chunks,     \* _chunks[transfer_id]: the stored chunks, in insertion order
    output,         \* what assemble wrote to output_path
    \* ---- the memory store behind ChatHistory and MessageReaper
    now,            \* the clock, in seconds
    memories,       \* the stored Memory objects, in the order they were stored
    next_id,        \* the id (a number) the store gives to the next Memory
    forgotten,      \* the forget calls the store carried out: the id, and whether
                    \* the sweep that made the call was creating tombstones
    \* ---- the transport behind ChatTransport
    wire,           \* the payloads handed to skcomm.send, in order
    \* ---- a MessageReaper.sweep that runs next to other callers of the store
    sw_pc,          \* "idle", or "listed" while its loop is running
    sw_now,         \* its local `now`
    sw_messages,    \* the list that list_memories returned to it
    sw_index,       \* the place in that list its loop has reached
    sw_create_tombstones,  \* its argument
    sw_result,      \* its ExpiryResult so far
    \* ---- observation of the crypto calls
    sealed,         \* the GroupMessageEncryptor.encrypt calls made: plaintext, key, output
    produced,       \* the ChatMessage that is handed from one ChatCrypto call to the next
    \* ---- concurrent callers of FileReceiver.receive_chunk (SpecDelivery)
    rc_pc,          \* where each concurrent receive_chunk call stands
    rc_chunk,       \* the chunk each of them was given
    rc_entry,       \* whether _chunks has an entry for the transfer
    rc_accepted,     \* the sequence numbers for which receive_chunk has returned True
    \* ---- reactions (reactions.py)
    managers,       \* the ReactionManager of each peer: _reactions, _event_log, _seen_events
    uuid4,           \* the event ids uuid.uuid4 has handed out
    \* ---- receiving side of the transport (transport.py)
    inbox           \* the memories in the ChatHistory of the receiving transport

groupVars == <<members, group_key, key_version, message_count, entropy, keyLog, call>>
concVars == <<pc, rm_arg, rm_before, rm_kept, rm_removed, rk_key, rk_version,
              rd_pc, rd_message, rd_key>>

fileVars == <<file, sender_pc, transfer, sent, private_key_armor,
              receiver_transfers, receiver_chunks, output>>

storeVars == <<now, memories, next_id, forgotten, wire>>

sweepVars == <<sw_pc, sw_now, sw_messages, sw_index, sw_create_tombstones, sw_result>>

cryptoVars == <<sealed, produced>>

inboxVars == <<inbox>>

reactVars == <<managers, uuid4>>

deliverVars == <<rc_pc, rc_chunk, rc_entry, rc_accepted>>

vars == <<groupVars, concVars, fileVars, storeVars, sweepVars, cryptoVars, deliverVars, reactVars, inboxVars>>

(***************************************************************************)
(* GroupMember / GroupChat helpers.                                        *)
(***************************************************************************)
GroupMember(identity_uri, role, public_key_armor, tool_scope) ==
    [identity_uri |-> identity_uri, role |-> role,
     public_key_armor |-> public_key_armor, tool_scope |-> tool_scope]

\* the elements of a list as a set
Range(s) == {s[i] : i \in 1..Len(s)}

member_uris(ms) == [i \in 1..Len(ms) |-> ms[i].identity_uri]

\* first member with the given identity, None if there is none
get_member(ms, identity_uri) ==
    IF \E i \in 1..Len(ms) : ms[i].identity_uri = identity_uri
    THEN ms[CHOOSE i \in 1..Len(ms) :
                /\ ms[i].identity_uri = identity_uri
                /\ \A j \in 1..(i - 1) : ms[j].identity_uri # identity_uri]
    ELSE None

is_admin(ms, identity_uri) ==
    LET member == get_member(ms, identity_uri)
    IN  member # None /\ member.role = "admin"

\* [m for m in ms if m.identity_uri != identity_uri]
RECURSIVE without_member(_, _)
without_member(ms, identity_uri) ==
    IF ms = <<>> THEN <<>>
    ELSE IF Head(ms).identity_uri # identity_uri
         THEN <<Head(ms)>> \o without_member(Tail(ms), identity_uri)
         ELSE without_member(Tail(ms), identity_uri)

\* can_invoke_tool that holds an admin to its tool_scope as well
can_invoke_tool_scoped_admin(ms, identity_uri, tool_name) ==
    LET member == get_member(ms, identity_uri)
    IN  IF member = None THEN FALSE
        ELSE IF member.tool_scope = <<>> THEN TRUE
        ELSE tool_name \in Range(member.tool_scope)

can_invoke_tool(ms, identity_uri, tool_name) ==
    LET member == get_member(ms, identity_uri)
    IN  IF member = None THEN FALSE
        ELSE IF member.role = "admin" THEN TRUE
        ELSE IF member.tool_scope = <<>> THEN TRUE
        ELSE tool_name \in Range(member.tool_scope)

\* the value the next os.urandom draw returns
urandom == entropy + 1

(***************************************************************************)
(* GroupMessageEncryptor: AES-256-GCM under the group key, then base64.    *)
(***************************************************************************)
GroupDecryptionError == "GroupDecryptionError"

\* base64 text of the bytes raw
b64encode(raw) == <<"b64", raw>>
\* the bytes of a base64 text; characters outside the alphabet that follow in
\* the text (text[3], if any) are discarded
b64decode(text) == text[2]

\* aesgcm.encrypt(nonce, plaintext, None), prefixed with the nonce
encrypt(plaintext, group_key_hex, nonce) ==
    b64encode([nonce |-> nonce, sealed_with |-> group_key_hex, body |-> plaintext,
               tag |-> <<nonce, plaintext>>])

\* decryption that does not check the authentication tag
decrypt_unauthenticated(encrypted_b64, group_key_hex) ==
    b64decode(encrypted_b64).body

\* decryption that opens whatever bears the right key
decrypt_checking_key_only(encrypted_b64, group_key_hex) ==
    LET raw == b64decode(encrypted_b64)
    IN  IF raw.sealed_with = group_key_hex THEN raw.body ELSE GroupDecryptionError

\* aesgcm.decrypt(nonce, ciphertext, None) on the decoded bytes: the tag is the
\* one computed under the key for this nonce and this body, or decryption raises
decrypt(encrypted_b64, group_key_hex) ==
    LET raw == b64decode(encrypted_b64)
    IN  IF raw.sealed_with = group_key_hex /\ raw.tag = <<raw.nonce, raw.body>>
        THEN raw.body
        ELSE GroupDecryptionError

(***************************************************************************)
(* GroupChat operations, one caller at a time.                             *)
(***************************************************************************)
\* a GroupChat method called by the only caller: the call is recorded and
\* nothing outside the group changes
Called(op, arg, ret) ==
    /\ call' = [op |-> op, arg |-> arg, ret |-> ret]
    /\ UNCHANGED <<concVars, fileVars, storeVars, sweepVars, inboxVars, reactVars, deliverVars, cryptoVars>>

\* no file transfer is under way
FilesIdle ==
    /\ file = <<>>
    /\ sender_pc = "start"
    /\ transfer = None
    /\ sent = <<>>
    /\ private_key_armor = ""
    /\ receiver_transfers = None
    /\ receiver_chunks = <<>>
    /\ output = <<>>

\* the store is empty and nothing was sent
StoreIdle ==
    /\ now = 0
    /\ memories = <<>>
    /\ next_id = 1
    /\ forgotten = {}
    /\ wire = <<>>

\* no sweep is under way
SweepIdle ==
    /\ sw_pc = "idle"
    /\ sw_now = 0
    /\ sw_messages = <<>>
    /\ sw_index = 1
    /\ sw_create_tombstones = FALSE
    /\ sw_result = None

\* no crypto call was made
CryptoIdle ==
    /\ sealed = <<>>
    /\ produced = None

\* the threads that call receive_chunk on one FileReceiver
Deliverers == {"d1", "d2"}
\* no receive_chunk call of the concurrent callers is under way
DeliveryIdle ==
    /\ rc_pc = [d \in Deliverers |-> "idle"]
    /\ rc_chunk = [d \in Deliverers |-> None]
    /\ rc_entry = FALSE
    /\ rc_accepted = {}

\* the peers that exchange reaction events, and what they react with
Peers == {"p1", "p2"}
MessageIds == {"m1"}
Emojis == {"thumbsup"}
Reactors == {"alice", "bob"}

\* ReactionManager.__init__
ReactionManager ==
    [reactions |-> [message_id \in MessageIds |-> <<>>], event_log |-> <<>>, seen_events |-> {}]

\* no ReactionManager has been used
ReactIdle ==
    /\ managers = [peer \in Peers |-> ReactionManager]
    /\ uuid4 = 0

\* the receiving transport has polled nothing
InboxIdle ==
    inbox = <<>>

Removers == {"t1", "t2"}
\* no call of the concurrent callers is under way
ConcIdle ==
    /\ pc = [t \in Removers |-> "idle"]
    /\ rm_arg = [t \in Removers |-> None]
    /\ rm_before = [t \in Removers |-> 0]
    /\ rm_kept = [t \in Removers |-> <<>>]
    /\ rm_removed = [t \in Removers |-> FALSE]
    /\ rk_key = [t \in Removers |-> 0]
    /\ rk_version = [t \in Removers |-> 0]
    /\ rd_pc = "idle"
    /\ rd_message = None
    /\ rd_key = 0

\* os.urandom(32).hex(): the bytes drawn for a group key, two hex characters each
GROUP_KEY_BYTES == 32
hex_length(bytes) == 2 * bytes

\* create that adds the creator with add_member's default role
create_as_member(creator_uri, creator_public_key) ==
    /\ members = <<GroupMember(creator_uri, "member", creator_public_key, <<>>)>>
    /\ group_key = 1
    /\ key_version = 1
    /\ message_count = 0
    /\ entropy = 1
    /\ keyLog = <<<<1, 1>>>>
    /\ call = [op |-> "create", arg |-> creator_uri, ret |-> "group"]
    /\ ConcIdle
    /\ FilesIdle
    /\ StoreIdle
    /\ SweepIdle
    /\ InboxIdle
    /\ ReactIdle
    /\ DeliveryIdle
    /\ CryptoIdle

\* GroupChat.create: a fresh key, version 1, the creator as only admin
create(creator_uri, creator_public_key) ==
    /\ members = <<GroupMember(creator_uri, "admin", creator_public_key, <<>>)>>
    /\ group_key = 1
    /\ key_version = 1
    /\ message_count = 0
    /\ entropy = 1
    /\ keyLog = <<<<1, 1>>>>
    /\ call = [op |-> "create", arg |-> creator_uri, ret |-> "group"]
    /\ ConcIdle
    /\ FilesIdle
    /\ StoreIdle
    /\ SweepIdle
    /\ InboxIdle
    /\ ReactIdle
    /\ DeliveryIdle
    /\ CryptoIdle

\* add_member without the test for an existing member
add_member_appending(identity_uri, role, public_key_armor, tool_scope) ==
    LET member == GroupMember(identity_uri, role, public_key_armor, tool_scope)
    IN  /\ members' = Append(members, member)
        /\ Called("add_member", identity_uri, member)
        /\ UNCHANGED <<group_key, key_version, message_count, entropy, keyLog>>

add_member(identity_uri, role, public_key_armor, tool_scope) ==
    LET member == GroupMember(identity_uri, role, public_key_armor, tool_scope)
    IN  IF get_member(members, identity_uri) # None
        THEN /\ Called("add_member", identity_uri, None)
             /\ UNCHANGED <<members, group_key, key_version, message_count, entropy,
                            keyLog>>
        ELSE /\ members' = Append(members, member)
             /\ Called("add_member", identity_uri, member)
             /\ UNCHANGED <<group_key, key_version, message_count, entropy, keyLog>>

\* rotate_key that installs a new key and leaves key_version as it was
rotate_key_effect_same_version ==
    /\ group_key' = urandom
    /\ entropy' = entropy + 1
    /\ key_version' = key_version
    /\ keyLog' = Append(keyLog, <<key_version, urandom>>)

\* the assignments of rotate_key
rotate_key_effect ==
    /\ group_key' = urandom
    /\ entropy' = entropy + 1
    /\ key_version' = key_version + 1
    /\ keyLog' = Append(keyLog, <<key_version + 1, urandom>>)

rotate_key ==
    /\ entropy < MaxDraws
    /\ rotate_key_effect
    /\ Called("rotate_key", None, urandom)
    /\ UNCHANGED <<members, message_count>>

\* remove_member without the call to rotate_key
remove_member_without_rotation(identity_uri) ==
    LET before == Len(members)
        kept == without_member(members, identity_uri)
        removed == Len(kept) < before
    IN  /\ members' = kept
        /\ Called("remove_member", identity_uri, removed)
        /\ UNCHANGED <<group_key, key_version, message_count, entropy, keyLog>>

\* remove_member that also clears the tool_scope of the members it keeps
remove_member_clearing_scopes(identity_uri) ==
    LET before == Len(members)
        kept == without_member(members, identity_uri)
        removed == Len(kept) < before
    IN  /\ removed => entropy < MaxDraws
        /\ members' = [i \in 1..Len(kept) |-> [kept[i] EXCEPT !.tool_scope = <<>>]]
        /\ IF removed
           THEN rotate_key_effect
           ELSE UNCHANGED <<group_key, key_version, entropy, keyLog>>
        /\ Called("remove_member", identity_uri, removed)
        /\ UNCHANGED message_count

remove_member(identity_uri) ==
    LET before == Len(members)
        kept == without_member(members, identity_uri)
        removed == Len(kept) < before
    IN  /\ removed => entropy < MaxDraws
        /\ members' = kept
        /\ IF removed
           THEN rotate_key_effect
           ELSE UNCHANGED <<group_key, key_version, entropy, keyLog>>
        /\ Called("remove_member", identity_uri, removed)
        /\ UNCHANGED message_count

touch ==
    /\ message_count < MaxMsgs
    /\ message_count' = message_count + 1
    /\ Called("touch", None, None)
    /\ UNCHANGED <<members, group_key, key_version, entropy, keyLog>>

\* set_tool_scope that accepts any member as the requester
set_tool_scope_by_any_member(identity_uri, tool_scope, by_admin) ==
    IF get_member(members, by_admin) = None \/ get_member(members, identity_uri) = None
    THEN /\ Called("set_tool_scope", identity_uri, FALSE)
         /\ UNCHANGED <<members, group_key, key_version, message_count, entropy, keyLog>>
    ELSE /\ members' = [i \in 1..Len(members) |->
                          IF members[i] = get_member(members, identity_uri)
                          THEN [members[i] EXCEPT !.tool_scope = tool_scope]
                          ELSE members[i]]
         /\ Called("set_tool_scope", identity_uri, TRUE)
         /\ UNCHANGED <<group_key, key_version, message_count, entropy, keyLog>>

set_tool_scope(identity_uri, tool_scope, by_admin) ==
    IF ~is_admin(members, by_admin) \/ get_member(members, identity_uri) = None
    THEN /\ Called("set_tool_scope", identity_uri, FALSE)
         /\ UNCHANGED <<members, group_key, key_version, message_count, entropy, keyLog>>
    ELSE /\ members' = [i \in 1..Len(members) |->
                          IF members[i] = get_member(members, identity_uri)
                          THEN [members[i] EXCEPT !.tool_scope = tool_scope]
                          ELSE members[i]]
         /\ Called("set_tool_scope", identity_uri, TRUE)
         /\ UNCHANGED <<group_key, key_version, message_count, entropy, keyLog>>

\* compose_group_message that also refuses a sender with a non-empty tool_scope
compose_group_message_scoped(sender_uri, content) ==
    LET member == get_member(members, sender_uri)
    IN  IF member = None \/ member.role = "observer" \/ member.tool_scope # <<>>
        THEN /\ Called("compose_group_message", sender_uri, None)
             /\ UNCHANGED <<members, group_key, key_version, message_count, entropy, keyLog>>
        ELSE /\ message_count < MaxMsgs
             /\ message_count' = message_count + 1
             /\ Called("compose_group_message", sender_uri,
                       [sender |-> sender_uri, content |-> content,
                        key_version |-> key_version])
             /\ UNCHANGED <<members, group_key, key_version, entropy, keyLog>>

compose_group_message(sender_uri, content) ==
    LET member == get_member(members, sender_uri)
    IN  IF member = None \/ member.role = "observer"
        THEN /\ Called("compose_group_message", sender_uri, None)
             /\ UNCHANGED <<members, group_key, key_version, message_count, entropy, keyLog>>
        ELSE /\ message_count < MaxMsgs
             /\ message_count' = message_count + 1
             /\ Called("compose_group_message", sender_uri,
                       [sender |-> sender_uri, content |-> content,
                        key_version |-> key_version])
             /\ UNCHANGED <<members, group_key, key_version, entropy, keyLog>>

\* key_version is a plain public field: a caller, or a group loaded from its
\* stored form, can set it to any value
set_key_version(v) ==
    /\ key_version' = v
    /\ Called("set_key_version", v, None)
    /\ UNCHANGED <<members, group_key, message_count, entropy, keyLog>>

\* create and add_member are called without a public key (the default argument)
Init == \E creator_uri \in Identities : create(creator_uri, "")

Next ==
    \/ \E u \in Identities, r \in Roles, s \in Scopes : add_member(u, r, "", s)
    \/ \E u \in Identities : remove_member(u)
    \/ rotate_key
    \/ touch
    \/ \E u \in Identities, s \in Scopes, a \in Identities : set_tool_scope(u, s, a)
    \/ \E u \in Identities, c \in Contents : compose_group_message(u, c)

Spec == Init /\ [][Next]_vars

(***************************************************************************)
(* SpecRollback: the key life cycle when key_version is also assigned      *)
(* directly.  Members are added with add_member's default arguments.       *)
(***************************************************************************)
NextRollback ==
    \/ \E u \in Identities : add_member(u, "member", "", <<>>)
    \/ \E u \in Identities : remove_member(u)
    \/ rotate_key
    \/ \E v \in 1..MaxVersion : set_key_version(v)

SpecRollback == Init /\ [][NextRollback]_vars

(***************************************************************************)
(* SpecScope: the states a group reaches by add_member, remove_member and   *)
(* set_tool_scope alone.                                                   *)
(***************************************************************************)
NextScope ==
    \/ \E u \in Identities, r \in Roles, s \in Scopes : add_member(u, r, "", s)
    \/ \E u \in Identities : remove_member(u)
    \/ \E u \in Identities, s \in Scopes, a \in Identities : set_tool_scope(u, s, a)

SpecScope == Init /\ [][NextScope]_vars

(***************************************************************************)
(* SpecKeys: GroupKeyDistributor on a group whose members were added with  *)
(* or without a PGP public key.  A PGP message is the pair of the key it   *)
(* was encrypted to and the text inside.                                   *)
(***************************************************************************)
\* the public_key_armor an identity is added with: none, text that is no PGP key,
\* or its own public key (named after the identity)
Armors(identity_uri) == {"", "not a key", identity_uri}

\* pgpy.PGPKey.from_blob accepts the armor
is_pgp_key(armor) == armor \in Identities

\* encrypt_key_for_member that wraps to whatever armor it is given
encrypt_key_for_member_unchecked(group_key_hex, member_public_armor) ==
    [pgp_message_for |-> member_public_armor, message |-> group_key_hex]

\* GroupKeyDistributor.encrypt_key_for_member: None without an armor and None when
\* pgpy raises on it
encrypt_key_for_member(group_key_hex, member_public_armor) ==
    IF member_public_armor = "" THEN None
    ELSE IF ~is_pgp_key(member_public_armor) THEN None
    ELSE [pgp_message_for |-> member_public_armor, message |-> group_key_hex]

\* the loop of distribute_key: result[member.identity_uri] = encrypted
RECURSIVE distribute_loop(_, _, _)
distribute_loop(ms, key_hex, result) ==
    IF ms = <<>> THEN result
    ELSE distribute_loop(Tail(ms), key_hex,
             (Head(ms).identity_uri :>
                  encrypt_key_for_member(key_hex, Head(ms).public_key_armor)) @@ result)

\* GroupKeyDistributor.distribute_key(group)
distribute_key ==
    /\ Called("distribute_key", None, distribute_loop(members, group_key, <<>>))
    /\ UNCHANGED <<members, group_key, key_version, message_count, entropy, keyLog>>

InitKeys == \E creator_uri \in Identities :
                \E armor \in Armors(creator_uri) : create(creator_uri, armor)

NextKeys ==
    \/ \E u \in Identities : \E armor \in Armors(u) : add_member(u, "member", armor, <<>>)
    \/ \E u \in Identities : remove_member(u)
    \/ rotate_key
    \/ distribute_key

SpecKeys == InitKeys /\ [][NextKeys]_vars

(***************************************************************************)
(* SpecConc: one GroupChat shared by two remove_member callers and one     *)
(* compose_group_message caller.  GroupChat holds no lock, so the callers  *)
(* interleave between any two reads or writes of members, group_key and    *)
(* key_version.  The group starts as create("alice") followed by           *)
(* add_member("bob") and add_member("carol").                              *)
(***************************************************************************)
InitConc ==
    /\ members = <<GroupMember("alice", "admin", "", <<>>),
                   GroupMember("bob", "member", "", <<>>),
                   GroupMember("carol", "member", "", <<>>)>>
    /\ group_key = 1
    /\ key_version = 1
    /\ message_count = 0
    /\ entropy = 1
    /\ keyLog = <<<<1, 1>>>>
    /\ call = [op |-> "add_member", arg |-> "carol",
               ret |-> GroupMember("carol", "member", "", <<>>)]
    /\ ConcIdle
    /\ FilesIdle
    /\ StoreIdle
    /\ SweepIdle
    /\ InboxIdle
    /\ ReactIdle
    /\ DeliveryIdle
    /\ CryptoIdle

Goto(t, label) == pc' = [pc EXCEPT ![t] = label]

\* remove_member(identity_uri) is entered: before = len(self.members)
rm_len_before(t, identity_uri) ==
    /\ pc[t] = "idle"
    /\ rm_arg' = [rm_arg EXCEPT ![t] = identity_uri]
    /\ rm_before' = [rm_before EXCEPT ![t] = Len(members)]
    /\ Goto(t, "filter")
    /\ UNCHANGED <<groupVars, fileVars, storeVars, sweepVars, inboxVars, reactVars, deliverVars, cryptoVars, rm_kept, rm_removed, rk_key, rk_version,
                   rd_pc, rd_message, rd_key>>

\* the list comprehension reads self.members and builds the filtered list
rm_filter(t) ==
    /\ pc[t] = "filter"
    /\ rm_kept' = [rm_kept EXCEPT ![t] = without_member(members, rm_arg[t])]
    /\ Goto(t, "store")
    /\ UNCHANGED <<groupVars, fileVars, storeVars, sweepVars, inboxVars, reactVars, deliverVars, cryptoVars, rm_arg, rm_before, rm_removed, rk_key, rk_version,
                   rd_pc, rd_message, rd_key>>

\* self.members = <the filtered list>
rm_store(t) ==
    /\ pc[t] = "store"
    /\ members' = rm_kept[t]
    /\ Goto(t, "compare")
    /\ UNCHANGED <<fileVars, storeVars, sweepVars, inboxVars, reactVars, deliverVars, cryptoVars, group_key, key_version, message_count, entropy, keyLog, call,
                   rm_arg, rm_before, rm_kept, rm_removed, rk_key, rk_version,
                   rd_pc, rd_message, rd_key>>

\* removed = len(self.members) < before; if removed: enter rotate_key
rm_compare(t) ==
    /\ pc[t] = "compare"
    /\ rm_removed' = [rm_removed EXCEPT ![t] = Len(members) < rm_before[t]]
    /\ Goto(t, IF Len(members) < rm_before[t] THEN "new_key" ELSE "done")
    /\ UNCHANGED <<groupVars, fileVars, storeVars, sweepVars, inboxVars, reactVars, deliverVars, cryptoVars, rm_arg, rm_before, rm_kept, rk_key, rk_version,
                   rd_pc, rd_message, rd_key>>

\* rotate_key: self.group_key = os.urandom(32).hex()
rk_new_key(t) ==
    /\ pc[t] = "new_key"
    /\ group_key' = urandom
    /\ entropy' = entropy + 1
    /\ rk_key' = [rk_key EXCEPT ![t] = urandom]
    /\ Goto(t, "load_version")
    /\ UNCHANGED <<fileVars, storeVars, sweepVars, inboxVars, reactVars, deliverVars, cryptoVars, members, key_version, message_count, keyLog, call,
                   rm_arg, rm_before, rm_kept, rm_removed, rk_version,
                   rd_pc, rd_message, rd_key>>

\* rotate_key: self.key_version += 1, the load
rk_load_version(t) ==
    /\ pc[t] = "load_version"
    /\ rk_version' = [rk_version EXCEPT ![t] = key_version]
    /\ Goto(t, "store_version")
    /\ UNCHANGED <<groupVars, fileVars, storeVars, sweepVars, inboxVars, reactVars, deliverVars, cryptoVars, rm_arg, rm_before, rm_kept, rm_removed, rk_key,
                   rd_pc, rd_message, rd_key>>

\* rotate_key: self.key_version += 1, the store; remove_member then returns
rk_store_version(t) ==
    /\ pc[t] = "store_version"
    /\ key_version' = rk_version[t] + 1
    /\ keyLog' = Append(keyLog, <<rk_version[t] + 1, rk_key[t]>>)
    /\ Goto(t, "done")
    /\ UNCHANGED <<fileVars, storeVars, sweepVars, inboxVars, reactVars, deliverVars, cryptoVars, members, group_key, message_count, entropy, call,
                   rm_arg, rm_before, rm_kept, rm_removed, rk_key, rk_version,
                   rd_pc, rd_message, rd_key>>

\* compose_group_message(sender_uri, ...): the membership test and touch()
rd_enter(sender_uri) ==
    LET member == get_member(members, sender_uri)
    IN  /\ rd_pc = "idle"
        /\ IF member = None \/ member.role = "observer"
           THEN /\ rd_pc' = "refused"
                /\ UNCHANGED message_count
           ELSE /\ rd_pc' = "touched"
                /\ message_count' = message_count + 1
        /\ UNCHANGED <<fileVars, storeVars, sweepVars, inboxVars, reactVars, deliverVars, cryptoVars, members, group_key, key_version, entropy, keyLog, call,
                       pc, rm_arg, rm_before, rm_kept, rm_removed, rk_key, rk_version,
                       rd_message, rd_key>>

\* compose_group_message: metadata = {..., "key_version": self.key_version}
rd_compose ==
    /\ rd_pc = "touched"
    /\ rd_message' = [key_version |-> key_version]
    /\ rd_key' = group_key
    /\ rd_pc' = "done"
    /\ UNCHANGED <<groupVars, fileVars, storeVars, sweepVars, inboxVars, reactVars, deliverVars, cryptoVars, pc, rm_arg, rm_before, rm_kept, rm_removed,
                   rk_key, rk_version>>

NextConc ==
    \/ \E t \in Removers, u \in Identities : rm_len_before(t, u)
    \/ \E t \in Removers : rm_filter(t)
    \/ \E t \in Removers : rm_store(t)
    \/ \E t \in Removers : rm_compare(t)
    \/ \E t \in Removers : rk_new_key(t)
    \/ \E t \in Removers : rk_load_version(t)
    \/ \E t \in Removers : rk_store_version(t)
    \/ \E u \in Identities : rd_enter(u)
    \/ rd_compose

SpecConc == InitConc /\ [][NextConc]_vars

(***************************************************************************)
(* files.py: FileSender and FileReceiver.                                  *)
(*                                                                         *)
(* The receiver's maps are keyed by transfer_id and every operation reads  *)
(* and writes only the entries of the transfer_id it is given, so the      *)
(* model follows the entries of one transfer_id.  _chunks[transfer_id], a   *)
(* dict, is the list of the chunks stored so far in insertion order (the   *)
(* order a dict iterates in), no two with the same sequence number.        *)
(***************************************************************************)
\* the empty string, where the other values of the field are records
EmptyStr == [empty |-> TRUE]
\* transfer_key_hex when the caller passes no key (None or "")
no_key == 0
\* a key that is not the session's
other_key == -1
\* the transfer_id the session gets (a uuid4)
session_id == "transfer-1"

\* a file of n bytes, each different from the others
FileOfSize(n) == [i \in 1..n |-> [byte |-> i]]
\* the plaintext of a chunk that is not a chunk of the file
StrayBytes == <<[byte |-> 0]>>

Min(a, b) == IF a <= b THEN a ELSE b

\* FileSender._hash_file
hash_file(bytes) == [sha256_of |-> bytes]

FileChunk(transfer_id, sequence, total_chunks, data, chunk_hash) ==
    [transfer_id |-> transfer_id, sequence |-> sequence,
     total_chunks |-> total_chunks, data |-> data, chunk_hash |-> chunk_hash]

\* FileSender._encrypt_chunk: AES-256-GCM under the transfer key, then base64
encrypt_chunk(data, key_hex, nonce) ==
    b64encode([nonce |-> nonce, sealed_with |-> key_hex, body |-> data])

\* what aesgcm.decrypt raises when the tag does not verify
InvalidTag == <<[raised |-> "InvalidTag"]>>

\* FileReceiver._decrypt_chunk: without a key the decoded bytes are returned as
\* they are
decrypt_chunk(data_b64, key_hex) ==
    LET raw == b64decode(data_b64)
    IN  IF key_hex = no_key THEN <<[raw |-> raw]>>
        ELSE IF raw.sealed_with = key_hex THEN raw.body
        ELSE InvalidTag

\* FileSender._encrypt_key: the transfer key sealed to the recipient's public key
encrypt_key(key_hex, recipient_public_armor) ==
    [sealed_for |-> recipient_public_armor, key |-> key_hex]

\* FileReceiver._decrypt_transfer_key: None without a private key or when the
\* private key does not open the message
decrypt_transfer_key(encrypted_key) ==
    IF private_key_armor = "" THEN no_key
    ELSE IF encrypted_key.sealed_for = private_key_armor THEN encrypted_key.key
    ELSE no_key

\* a FileSender or FileReceiver method was called: the call is recorded and the
\* group is left alone
FileCalled(op, arg, ret) ==
    /\ call' = [op |-> op, arg |-> arg, ret |-> ret]
    /\ UNCHANGED <<members, group_key, key_version, message_count, keyLog, concVars,
                   storeVars, sweepVars, inboxVars, reactVars, deliverVars, cryptoVars>>

\* prepare that counts only the full chunks of the file
prepare_rounding_down(recipient_public_armor, chunk_size) ==
    LET file_size == Len(file)
        prepared ==
            [transfer_id |-> session_id,
             file_size |-> file_size,
             chunk_size |-> chunk_size,
             total_chunks |-> file_size \div chunk_size,
             sha256 |-> hash_file(file),
             transfer_key |-> urandom,
             encrypted_key |-> IF recipient_public_armor # ""
                               THEN encrypt_key(urandom, recipient_public_armor)
                               ELSE EmptyStr,
             status |-> "sending"]
    IN  /\ sender_pc = "start"
        /\ sender_pc' = "prepared"
        /\ transfer' = prepared
        /\ entropy' = entropy + 1
        /\ FileCalled("prepare", chunk_size, prepared)
        /\ UNCHANGED <<file, sent, private_key_armor, receiver_transfers,
                       receiver_chunks, output>>

\* FileSender.prepare
prepare(recipient_public_armor, chunk_size) ==
    LET file_size == Len(file)
        total_chunks == (file_size + chunk_size - 1) \div chunk_size
        prepared ==
            [transfer_id |-> session_id,
             file_size |-> file_size,
             chunk_size |-> chunk_size,
             total_chunks |-> total_chunks,
             sha256 |-> hash_file(file),
             transfer_key |-> urandom,
             encrypted_key |-> IF recipient_public_armor # ""
                               THEN encrypt_key(urandom, recipient_public_armor)
                               ELSE EmptyStr,
             status |-> "sending"]
    IN  /\ sender_pc = "start"
        /\ sender_pc' = "prepared"
        /\ transfer' = prepared
        /\ entropy' = entropy + 1
        /\ FileCalled("prepare", chunk_size, prepared)
        /\ UNCHANGED <<file, sent, private_key_armor, receiver_transfers,
                       receiver_chunks, output>>

\* the loop of FileSender.chunks: rest is what is left to read, seq the next
\* sequence number, nonce the next value drawn for a nonce
RECURSIVE read_chunks(_, _, _, _)
read_chunks(tr, rest, seq, nonce) ==
    IF rest = <<>> THEN <<>>
    ELSE LET n == Min(tr.chunk_size, Len(rest))
             raw == SubSeq(rest, 1, n)
         IN  <<FileChunk(tr.transfer_id, seq, tr.total_chunks,
                         encrypt_chunk(raw, tr.transfer_key, nonce), hash_file(raw))>>
             \o read_chunks(tr, SubSeq(rest, n + 1, Len(rest)), seq + 1, nonce + 1)

\* FileSender.chunks
chunks ==
    LET result == read_chunks(transfer, file, 0, urandom)
    IN  /\ sender_pc = "prepared"
        /\ sender_pc' = "chunked"
        /\ sent' = result
        /\ entropy' = entropy + Len(result)
        /\ FileCalled("chunks", None, result)
        /\ UNCHANGED <<file, transfer, private_key_armor, receiver_transfers,
                       receiver_chunks, output>>

\* FileReceiver.register_transfer, given the sender's FileTransfer
register_transfer ==
    /\ sender_pc # "start"
    /\ receiver_transfers' = transfer
    /\ FileCalled("register_transfer", transfer, None)
    /\ UNCHANGED <<file, sender_pc, transfer, sent, private_key_armor,
                   receiver_chunks, output, entropy>>

\* the keys of a chunk dict
sequences(stored) == {stored[i].sequence : i \in 1..Len(stored)}

\* receive_chunk that stores the chunk also when its sequence number is taken
receive_chunk_overwriting(chunk) ==
    /\ receiver_chunks' =
          IF chunk.sequence \in sequences(receiver_chunks)
          THEN [i \in 1..Len(receiver_chunks) |->
                   IF receiver_chunks[i].sequence = chunk.sequence
                   THEN chunk ELSE receiver_chunks[i]]
          ELSE Append(receiver_chunks, chunk)
    /\ FileCalled("receive_chunk", chunk, chunk.sequence \notin sequences(receiver_chunks))
    /\ UNCHANGED <<file, sender_pc, transfer, sent, private_key_armor,
                   receiver_transfers, output, entropy>>

\* FileReceiver.receive_chunk
receive_chunk(chunk) ==
    IF chunk.sequence \in sequences(receiver_chunks)
    THEN /\ FileCalled("receive_chunk", chunk, FALSE)
         /\ UNCHANGED <<fileVars, storeVars, sweepVars, inboxVars, reactVars, deliverVars, cryptoVars, entropy>>
    ELSE /\ receiver_chunks' = Append(receiver_chunks, chunk)
         /\ FileCalled("receive_chunk", chunk, TRUE)
         /\ UNCHANGED <<file, sender_pc, transfer, sent, private_key_armor,
                        receiver_transfers, output, entropy>>

\* is_complete that also holds when more chunks than total_chunks are stored
is_complete_at_least ==
    IF receiver_transfers = None
    THEN IF receiver_chunks = <<>> THEN FALSE
         ELSE Len(receiver_chunks) >= receiver_chunks[1].total_chunks
    ELSE Len(receiver_chunks) >= receiver_transfers.total_chunks

\* FileReceiver.is_complete
is_complete ==
    IF receiver_transfers = None
    THEN IF receiver_chunks = <<>> THEN FALSE
         ELSE Len(receiver_chunks) = receiver_chunks[1].total_chunks
    ELSE Len(receiver_chunks) = receiver_transfers.total_chunks

\* the chunks of a dict in the order it iterates in
in_arrival_order(stored) == stored

\* the chunks of a dict in the order of sorted(chunks.keys())
in_sequence_order(stored) ==
    SortSeq(stored, LAMBDA a, b : a.sequence < b.sequence)

\* the loop of assemble that decrypts and writes chunk after chunk, up to the
\* first chunk whose decryption raises
RECURSIVE write_chunks(_, _)
write_chunks(ordered, key_hex) ==
    IF ordered = <<>> THEN [written |-> <<>>, raised |-> FALSE]
    ELSE LET decrypted == decrypt_chunk(Head(ordered).data, key_hex)
         IN  IF decrypted = InvalidTag THEN [written |-> <<>>, raised |-> TRUE]
             ELSE LET rest == write_chunks(Tail(ordered), key_hex)
                  IN  [written |-> decrypted \o rest.written, raised |-> rest.raised]

\* FileReceiver.assemble
assemble(transfer_key_hex) ==
    LET stored == receiver_chunks
        tr == receiver_transfers
    IN  IF tr # None /\ Len(stored) < tr.total_chunks
        THEN /\ FileCalled("assemble", transfer_key_hex, [raised |-> "Missing chunks"])
             /\ UNCHANGED <<fileVars, storeVars, sweepVars, inboxVars, reactVars, deliverVars, cryptoVars, entropy>>
        ELSE LET unwrapped ==
                     IF transfer_key_hex = no_key /\ tr # None /\ tr.encrypted_key # EmptyStr
                     THEN decrypt_transfer_key(tr.encrypted_key)
                     ELSE transfer_key_hex
                 key_hex ==
                     IF unwrapped = no_key /\ tr # None THEN tr.transfer_key ELSE unwrapped
                 done == write_chunks(in_sequence_order(stored), key_hex)
                 file_hash == hash_file(done.written)
             IN  /\ output' = done.written
                 /\ IF done.raised
                    THEN FileCalled("assemble", transfer_key_hex, [raised |-> "InvalidTag"])
                    ELSE FileCalled("assemble", transfer_key_hex,
                                    [raised |-> "",
                                     size |-> Len(done.written),
                                     sha256 |-> file_hash,
                                     verified |-> IF tr # None THEN tr.sha256 = file_hash
                                                  ELSE TRUE])
                 /\ UNCHANGED <<file, sender_pc, transfer, sent, private_key_armor,
                                receiver_transfers, receiver_chunks, entropy>>

\* chunks that reach the receiver without being chunks of the session: they bear
\* its transfer_id and are sealed with its key; one takes the place of the first
\* chunk, one lies past the last chunk
StrayChunks ==
    IF sender_pc = "start" THEN {}
    ELSE {FileChunk(session_id, seq, transfer.total_chunks,
                    encrypt_chunk(StrayBytes, transfer.transfer_key, 0),
                    hash_file(StrayBytes)) : seq \in {0, transfer.total_chunks}}

\* the keys a caller of assemble passes
AssembleKeys ==
    {no_key, other_key} \cup (IF sender_pc = "start" THEN {} ELSE {transfer.transfer_key})

InitFiles ==
    /\ members = <<GroupMember("alice", "admin", "", <<>>)>>
    /\ group_key = 1
    /\ key_version = 1
    /\ message_count = 0
    /\ entropy = 1
    /\ keyLog = <<<<1, 1>>>>
    /\ call = [op |-> "create", arg |-> "alice", ret |-> "group"]
    /\ ConcIdle
    /\ StoreIdle
    /\ SweepIdle
    /\ InboxIdle
    /\ ReactIdle
    /\ DeliveryIdle
    /\ CryptoIdle
    /\ \E n \in 0..MaxFileSize : file = FileOfSize(n)
    /\ sender_pc = "start"
    /\ transfer = None
    /\ sent = <<>>
    /\ private_key_armor \in {"", "bob"}
    /\ receiver_transfers = None
    /\ receiver_chunks = <<>>
    /\ output = <<>>

NextFiles ==
    \/ \E armor \in {"", "bob"}, chunk_size \in 1..MaxChunkSize : prepare(armor, chunk_size)
    \/ chunks
    \/ register_transfer
    \/ \E chunk \in Range(sent) \cup StrayChunks : receive_chunk(chunk)
    \/ \E key \in AssembleKeys : assemble(key)

SpecFiles == InitFiles /\ [][NextFiles]_vars

(***************************************************************************)
(* SpecDelivery: the chunks of one transfer are handed to receive_chunk by *)
(* concurrent threads, no two of them with the same sequence number.  A    *)
(* step is one operation on the dicts of the receiver: each of them is a   *)
(* single call into the dict and is atomic in CPython.  At the start       *)
(* _chunks has no entry for the transfer.                                  *)
(***************************************************************************)
\* a step of a receive_chunk call: the call is recorded and nothing changes but
\* the receiver's chunk dict and the callers
DeliveryCalled(op, arg, ret) ==
    /\ call' = [op |-> op, arg |-> arg, ret |-> ret]
    /\ UNCHANGED <<members, group_key, key_version, message_count, entropy, keyLog,
                   concVars, file, sender_pc, transfer, sent, private_key_armor,
                   receiver_transfers, output, storeVars, sweepVars, inboxVars, reactVars, cryptoVars>>

\* the sequence numbers that are stored or about to be
taken == sequences(receiver_chunks)
            \cup {rc_chunk[d].sequence : d \in {e \in Deliverers : rc_pc[e] # "idle"}}

\* a thread enters receive_chunk(chunk)
rc_enter(d, chunk) ==
    /\ rc_pc[d] = "idle"
    /\ chunk.sequence \notin taken
    /\ rc_pc' = [rc_pc EXCEPT ![d] = "entered"]
    /\ rc_chunk' = [rc_chunk EXCEPT ![d] = chunk]
    /\ DeliveryCalled("rc_enter", chunk, None)
    /\ UNCHANGED <<receiver_chunks, rc_entry, rc_accepted>>

\* line 320 as an assignment: the entry of the transfer is set to an empty dict
rc_setdefault_assigning(d) ==
    /\ rc_pc[d] = "entered"
    /\ rc_entry' = TRUE
    /\ receiver_chunks' = <<>>
    /\ rc_pc' = [rc_pc EXCEPT ![d] = "defaulted"]
    /\ DeliveryCalled("rc_setdefault", rc_chunk[d], None)
    /\ UNCHANGED <<rc_chunk, rc_accepted>>

\* self._chunks.setdefault(tid, {}): an entry that exists is left as it is
rc_setdefault(d) ==
    /\ rc_pc[d] = "entered"
    /\ rc_entry' = TRUE
    /\ receiver_chunks' = IF rc_entry THEN receiver_chunks ELSE <<>>
    /\ rc_pc' = [rc_pc EXCEPT ![d] = "defaulted"]
    /\ DeliveryCalled("rc_setdefault", rc_chunk[d], None)
    /\ UNCHANGED <<rc_chunk, rc_accepted>>

\* if chunk.sequence in self._chunks[tid]: return False
rc_test(d) ==
    /\ rc_pc[d] = "defaulted"
    /\ IF rc_chunk[d].sequence \in sequences(receiver_chunks)
       THEN /\ rc_pc' = [rc_pc EXCEPT ![d] = "idle"]
            /\ DeliveryCalled("receive_chunk", rc_chunk[d], FALSE)
       ELSE /\ rc_pc' = [rc_pc EXCEPT ![d] = "tested"]
            /\ DeliveryCalled("rc_test", rc_chunk[d], None)
    /\ UNCHANGED <<receiver_chunks, rc_chunk, rc_entry, rc_accepted>>

\* self._chunks[tid][chunk.sequence] = chunk; return True
rc_store(d) ==
    /\ rc_pc[d] = "tested"
    /\ receiver_chunks' =
          IF rc_chunk[d].sequence \in sequences(receiver_chunks)
          THEN [i \in 1..Len(receiver_chunks) |->
                   IF receiver_chunks[i].sequence = rc_chunk[d].sequence
                   THEN rc_chunk[d] ELSE receiver_chunks[i]]
          ELSE Append(receiver_chunks, rc_chunk[d])
    /\ rc_accepted' = rc_accepted \cup {rc_chunk[d].sequence}
    /\ rc_pc' = [rc_pc EXCEPT ![d] = "idle"]
    /\ DeliveryCalled("receive_chunk", rc_chunk[d], TRUE)
    /\ UNCHANGED <<rc_chunk, rc_entry>>

NextDelivery ==
    \/ \E armor \in {"", "bob"}, chunk_size \in 1..MaxChunkSize : prepare(armor, chunk_size)
    \/ chunks
    \/ \E d \in Deliverers, chunk \in Range(sent) : rc_enter(d, chunk)
    \/ \E d \in Deliverers : rc_setdefault(d)
    \/ \E d \in Deliverers : rc_test(d)
    \/ \E d \in Deliverers : rc_store(d)

SpecDelivery == InitFiles /\ [][NextDelivery]_vars

(***************************************************************************)
(* history.py, ephemeral.py: ChatHistory and MessageReaper over one memory *)
(* store.  The store gives every Memory a fresh id and the time of the     *)
(* snapshot as created_at; list_memories(tags) returns the memories that   *)
(* carry all the tags, in the order they were stored.                      *)
(***************************************************************************)
CHAT_TAG == "skchat"
MESSAGE_TAG == "skchat:message"
THREAD_TAG_PREFIX == "skchat:thread:"
TOMBSTONE_TAG == "skchat:tombstone"

\* ttl of a message: None is the empty list, n seconds the list <<n>>
NoTtl == <<>>
TTLs == {NoTtl, <<1>>, <<2>>}
Threads == {"t1", "t2"}

\* a ChatMessage as it is composed: pending, not encrypted, not signed
ChatMessage(sender, recipient, content, thread_id, ttl) ==
    [sender |-> sender, recipient |-> recipient, content |-> content,
     thread_id |-> thread_id, ttl |-> ttl, delivery_status |-> "pending",
     encrypted |-> FALSE, signature |-> None]

\* the messages that are stored: alice writes to bob in thread t1
StoredMessages == {ChatMessage("alice", "bob", "hello", "t1", ttl) : ttl \in TTLs}

\* store.snapshot(...): the Memory the store creates
Memory(id, content, tags, metadata, created_at) ==
    [id |-> id, content |-> content, tags |-> tags, metadata |-> metadata,
     created_at |-> created_at]

\* store.list_memories(tags=[...]) on the memories ms
list_memories(ms, tags) == SelectSeq(ms, LAMBDA m : tags \subseteq m.tags)

\* ChatHistory.store_message: the Memory that is stored for a message
message_memory(message, id, created_at) ==
    Memory(id, message.content,
           {CHAT_TAG, MESSAGE_TAG, THREAD_TAG_PREFIX \o message.thread_id,
            "skchat:sender:" \o message.sender,
            "skchat:recipient:" \o message.recipient},
           [sender |-> message.sender, recipient |-> message.recipient,
            thread_id |-> message.thread_id,
            delivery_status |-> message.delivery_status, ttl |-> message.ttl],
           created_at)

\* a ChatHistory or MessageReaper method was called: the call is recorded and
\* the group, the file transfer and the wire are left alone
StoreCalled(op, arg, ret) ==
    /\ call' = [op |-> op, arg |-> arg, ret |-> ret]
    /\ UNCHANGED <<members, group_key, key_version, message_count, entropy, keyLog,
                   concVars, fileVars, wire, sweepVars, inboxVars, reactVars, deliverVars, cryptoVars>>

\* a second passes
tick ==
    /\ now < MaxTime
    /\ now' = now + 1
    /\ StoreCalled("tick", None, now + 1)
    /\ UNCHANGED <<memories, next_id, forgotten>>

\* ChatHistory.store_message
store_message(message) ==
    /\ next_id <= MaxIds
    /\ memories' = Append(memories, message_memory(message, next_id, now))
    /\ next_id' = next_id + 1
    /\ StoreCalled("store_message", message, next_id)
    /\ UNCHANGED <<now, forgotten>>

\* ChatHistory._memory_to_chat_dict
memory_to_chat_dict(memory) ==
    [memory_id |-> memory.id, sender |-> memory.metadata.sender,
     recipient |-> memory.metadata.recipient, content |-> memory.content,
     thread_id |-> memory.metadata.thread_id, timestamp |-> memory.created_at]

\* [f(m) for m in ms]
RECURSIVE chat_dicts(_)
chat_dicts(ms) ==
    IF ms = <<>> THEN <<>>
    ELSE <<memory_to_chat_dict(Head(ms))>> \o chat_dicts(Tail(ms))

\* ChatHistory.get_thread_messages
get_thread_messages(thread_id) ==
    /\ StoreCalled("get_thread_messages", thread_id,
                   chat_dicts(SelectSeq(list_memories(memories,
                                                      {THREAD_TAG_PREFIX \o thread_id}),
                                        LAMBDA m : MESSAGE_TAG \in m.tags)))
    /\ UNCHANGED <<now, memories, next_id, forgotten>>

\* ChatHistory.get_conversation: the messages either participant sent, when both
\* sender and recipient are among the two participants
get_conversation(participant_a, participant_b) ==
    LET sent_a == list_memories(memories, {MESSAGE_TAG, "skchat:sender:" \o participant_a})
        received == list_memories(memories,
                                  {MESSAGE_TAG, "skchat:sender:" \o participant_b})
        unseen == SelectSeq(received, LAMBDA m : \A i \in 1..Len(sent_a) : sent_a[i].id # m.id)
        involved == SelectSeq(sent_a \o unseen,
                              LAMBDA m : /\ m.metadata.sender \in {participant_a, participant_b}
                                         /\ m.metadata.recipient \in
                                                {participant_a, participant_b})
    IN  /\ StoreCalled("get_conversation", <<participant_a, participant_b>>,
                       SortSeq(chat_dicts(involved),
                               LAMBDA x, y : x.timestamp > y.timestamp))
        /\ UNCHANGED <<now, memories, next_id, forgotten>>

\* ChatHistory.search_messages with a query that every memory matches
search_messages ==
    /\ StoreCalled("search_messages", None,
                   chat_dicts(SelectSeq(memories,
                                        LAMBDA m : CHAT_TAG \in m.tags
                                                   /\ MESSAGE_TAG \in m.tags)))
    /\ UNCHANGED <<now, memories, next_id, forgotten>>

\* a fresh ExpiryResult; returned is false when the process died before sweep
\* returned it
ExpiryResult ==
    [returned |-> TRUE, scanned |-> 0, expired |-> 0, tombstoned |-> 0, errors |-> 0,
     active_ephemeral |-> 0]

\* what happens while the reaper expires one memory: nothing, store.snapshot
\* raises, store.forget raises, or the process dies before it calls store.forget
Faults == {"none", "snapshot_raises", "forget_raises", "crash"}

\* the condition of line 113 taken as "strictly after the expiry time"
due_strictly_after(now_, expiry_time) == now_ > expiry_time

\* now >= expiry_time
due(now_, expiry_time) == now_ >= expiry_time

\* MessageReaper._create_tombstone: the Memory it stores
tombstone(memory, id, now_) ==
    Memory(id, "[This message has expired and been deleted per sender's TTL policy]",
           {TOMBSTONE_TAG, CHAT_TAG},
           [original_id |-> memory.id, sender |-> memory.metadata.sender,
            recipient |-> memory.metadata.recipient,
            thread_id |-> memory.metadata.thread_id, expired_at |-> now_,
            original_ttl |-> memory.metadata.ttl],
           now_)

\* the try block of sweep with the two store calls in the other order
expire_forgetting_first(memory, st, create_tombstones, fault) ==
    LET gone == [st EXCEPT !.memories = SelectSeq(@, LAMBDA m : m.id # memory.id),
                           !.forgotten = @ \cup {[id |-> memory.id,
                                                  create_tombstones |-> create_tombstones]},
                           !.result.expired = @ + 1]
    IN  IF fault = "forget_raises" THEN [st EXCEPT !.result.errors = @ + 1]
        ELSE IF fault = "crash" THEN [gone EXCEPT !.running = FALSE]
        ELSE IF ~create_tombstones THEN gone
        ELSE IF fault = "snapshot_raises" THEN [gone EXCEPT !.result.errors = @ + 1]
        ELSE [gone EXCEPT !.memories = Append(@, tombstone(memory, st.next_id, now)),
                          !.next_id = @ + 1,
                          !.result.tombstoned = @ + 1]

\* the try block of sweep without its except clause: an exception of a store
\* call ends the sweep
expire_raising(memory, st, create_tombstones, fault) ==
    LET marked == IF create_tombstones
                  THEN [st EXCEPT !.memories = Append(@, tombstone(memory, st.next_id, now)),
                                  !.next_id = @ + 1,
                                  !.result.tombstoned = @ + 1]
                  ELSE st
    IN  IF create_tombstones /\ fault = "snapshot_raises"
        THEN [st EXCEPT !.running = FALSE]
        ELSE IF fault = "crash" THEN [marked EXCEPT !.running = FALSE]
        ELSE IF fault = "forget_raises" THEN [marked EXCEPT !.running = FALSE]
        ELSE [marked EXCEPT !.memories = SelectSeq(@, LAMBDA m : m.id # memory.id),
                            !.forgotten = @ \cup {[id |-> memory.id,
                                                   create_tombstones |-> create_tombstones]},
                            !.result.expired = @ + 1]

\* the try block of sweep for one expired memory: the tombstone, then forget; an
\* exception of either call is counted in errors.  st is the store and the result
\* so far.
expire(memory, st, create_tombstones, fault) ==
    LET marked == IF create_tombstones
                  THEN [st EXCEPT !.memories = Append(@, tombstone(memory, st.next_id, now)),
                                  !.next_id = @ + 1,
                                  !.result.tombstoned = @ + 1]
                  ELSE st
    IN  IF create_tombstones /\ fault = "snapshot_raises"
        THEN [st EXCEPT !.result.errors = @ + 1]
        ELSE IF fault = "crash" THEN [marked EXCEPT !.running = FALSE]
        ELSE IF fault = "forget_raises" THEN [marked EXCEPT !.result.errors = @ + 1]
        ELSE [marked EXCEPT !.memories = SelectSeq(@, LAMBDA m : m.id # memory.id),
                            !.forgotten = @ \cup {[id |-> memory.id,
                                                   create_tombstones |-> create_tombstones]},
                            !.result.expired = @ + 1]

\* the loop of sweep when a missing ttl counts as a ttl of zero seconds
RECURSIVE sweep_loop_ttl_zero(_, _, _, _)
sweep_loop_ttl_zero(messages, st, create_tombstones, faults) ==
    IF messages = <<>> \/ ~st.running THEN st
    ELSE LET memory == Head(messages)
             scanned == [st EXCEPT !.result.scanned = @ + 1]
             ttl == IF memory.metadata.ttl = NoTtl THEN <<0>> ELSE memory.metadata.ttl
         IN  sweep_loop_ttl_zero(Tail(messages),
                        IF due(now, memory.created_at + ttl[1])
                        THEN expire(memory, scanned, create_tombstones,
                                    faults[memory.id])
                        ELSE [scanned EXCEPT !.result.active_ephemeral = @ + 1],
                        create_tombstones, faults)

\* the loop of sweep over the memories listed at its start.  ttl is an int or None
\* and created_at is the store's timestamp, so int(ttl) and _parse_timestamp succeed.
RECURSIVE sweep_loop(_, _, _, _)
sweep_loop(messages, st, create_tombstones, faults) ==
    IF messages = <<>> \/ ~st.running THEN st
    ELSE LET memory == Head(messages)
             scanned == [st EXCEPT !.result.scanned = @ + 1]
             ttl == memory.metadata.ttl
         IN  sweep_loop(Tail(messages),
                        IF ttl = NoTtl THEN scanned
                        ELSE IF due(now, memory.created_at + ttl[1])
                             THEN expire(memory, scanned, create_tombstones,
                                         faults[memory.id])
                             ELSE [scanned EXCEPT !.result.active_ephemeral = @ + 1],
                        create_tombstones, faults)

\* MessageReaper.sweep
sweep(create_tombstones, faults) ==
    LET messages == list_memories(memories, {MESSAGE_TAG})
        end == sweep_loop(messages,
                          [memories |-> memories, next_id |-> next_id,
                           forgotten |-> forgotten, result |-> ExpiryResult,
                           running |-> TRUE],
                          create_tombstones, faults)
    IN  /\ next_id <= MaxIds + 1
        /\ memories' = end.memories
        /\ next_id' = end.next_id
        /\ forgotten' = end.forgotten
        /\ StoreCalled("sweep", [create_tombstones |-> create_tombstones, faults |-> faults],
                       [end.result EXCEPT !.returned = end.running])
        /\ UNCHANGED now

\* the ids of the stored messages
message_ids == {memories[i].id : i \in {j \in 1..Len(memories) : MESSAGE_TAG \in memories[j].tags}}

\* the store carries out every call
NoFaults == [id \in message_ids |-> "none"]

\* the store carries out every call but those for one memory
OneFault(id, fault) == [i \in message_ids |-> IF i = id THEN fault ELSE "none"]

\* the store fails the same call for every memory
EveryFault(fault) == [i \in message_ids |-> fault]

InitStore ==
    /\ members = <<GroupMember("alice", "admin", "", <<>>)>>
    /\ group_key = 1
    /\ key_version = 1
    /\ message_count = 0
    /\ entropy = 1
    /\ keyLog = <<<<1, 1>>>>
    /\ call = [op |-> "create", arg |-> "alice", ret |-> "group"]
    /\ ConcIdle
    /\ FilesIdle
    /\ StoreIdle
    /\ SweepIdle
    /\ InboxIdle
    /\ ReactIdle
    /\ DeliveryIdle
    /\ CryptoIdle

(***************************************************************************)
(* SpecEphemeral: messages are stored, read and swept while time passes;   *)
(* the store carries out every call.                                       *)
(***************************************************************************)
NextEphemeral ==
    \/ tick
    \/ \E message \in StoredMessages : store_message(message)
    \/ \E create_tombstones \in BOOLEAN : sweep(create_tombstones, NoFaults)
    \/ \E thread_id \in Threads : get_thread_messages(thread_id)
    \/ \E a, b \in Identities : get_conversation(a, b)
    \/ search_messages

SpecEphemeral == InitStore /\ [][NextEphemeral]_vars

(***************************************************************************)
(* SpecReaper: the same store when its calls can raise and the reaper's    *)
(* process can die in the middle of a sweep.  The try block of sweep is    *)
(* entered once per memory, so what goes wrong for one memory does not     *)
(* change what happens to another: a sweep meets a fault for one memory,   *)
(* or the same failure for every memory.                                   *)
(***************************************************************************)
NextReaper ==
    \/ tick
    \/ \E message \in StoredMessages : store_message(message)
    \/ \E create_tombstones \in BOOLEAN : sweep(create_tombstones, NoFaults)
    \/ \E create_tombstones \in BOOLEAN, id \in message_ids, fault \in Faults \ {"none"} :
          sweep(create_tombstones, OneFault(id, fault))
    \/ \E create_tombstones \in BOOLEAN, fault \in {"snapshot_raises", "forget_raises"} :
          sweep(create_tombstones, EveryFault(fault))

SpecReaper == InitStore /\ [][NextReaper]_vars

(***************************************************************************)
(* SpecSweeping: one sweep runs next to the callers of ChatHistory.  The   *)
(* sweep takes its `now` and its list of messages when it starts and then  *)
(* handles one listed memory per step; messages are stored and read and    *)
(* time passes between its steps.  The store carries out every call.       *)
(***************************************************************************)
\* a step of the running sweep: the call is recorded, the clock and the rest
\* are left alone
SweepCalled(op, arg, ret) ==
    /\ call' = [op |-> op, arg |-> arg, ret |-> ret]
    /\ UNCHANGED <<members, group_key, key_version, message_count, entropy, keyLog,
                   concVars, fileVars, now, wire, cryptoVars, inboxVars, reactVars, deliverVars>>

\* MessageReaper.sweep up to the start of its loop
sweep_list(create_tombstones) ==
    /\ sw_pc = "idle"
    /\ next_id <= MaxIds + 1
    /\ sw_pc' = "listed"
    /\ sw_now' = now
    /\ sw_messages' = list_memories(memories, {MESSAGE_TAG})
    /\ sw_index' = 1
    /\ sw_create_tombstones' = create_tombstones
    /\ sw_result' = ExpiryResult
    /\ SweepCalled("sweep_list", create_tombstones, None)
    /\ UNCHANGED <<memories, next_id, forgotten>>

\* an iteration that takes the newest message now in the store instead of the
\* listed one, and the time of the iteration instead of the time of the listing
sweep_step_relisting ==
    LET relisted == list_memories(memories, {MESSAGE_TAG})
        memory == IF relisted = <<>> THEN sw_messages[sw_index]
                  ELSE relisted[Len(relisted)]
        scanned == [memories |-> memories, next_id |-> next_id, forgotten |-> forgotten,
                    result |-> [sw_result EXCEPT !.scanned = @ + 1], running |-> TRUE]
        ttl == memory.metadata.ttl
        end == IF ttl = NoTtl THEN scanned
               ELSE IF due(now, memory.created_at + ttl[1])
                    THEN expire(memory, scanned, sw_create_tombstones, "none")
                    ELSE [scanned EXCEPT !.result.active_ephemeral = @ + 1]
    IN  /\ sw_pc = "listed"
        /\ sw_index <= Len(sw_messages)
        /\ memories' = end.memories
        /\ next_id' = end.next_id
        /\ forgotten' = end.forgotten
        /\ sw_result' = end.result
        /\ sw_index' = sw_index + 1
        /\ SweepCalled("sweep_step", sw_messages[sw_index].id, None)
        /\ UNCHANGED <<sw_pc, sw_now, sw_messages, sw_create_tombstones>>

\* one iteration of the loop of MessageReaper.sweep
sweep_step ==
    LET memory == sw_messages[sw_index]
        scanned == [memories |-> memories, next_id |-> next_id, forgotten |-> forgotten,
                    result |-> [sw_result EXCEPT !.scanned = @ + 1], running |-> TRUE]
        ttl == memory.metadata.ttl
        end == IF ttl = NoTtl THEN scanned
               ELSE IF due(sw_now, memory.created_at + ttl[1])
                    THEN expire(memory, scanned, sw_create_tombstones, "none")
                    ELSE [scanned EXCEPT !.result.active_ephemeral = @ + 1]
    IN  /\ sw_pc = "listed"
        /\ sw_index <= Len(sw_messages)
        /\ memories' = end.memories
        /\ next_id' = end.next_id
        /\ forgotten' = end.forgotten
        /\ sw_result' = end.result
        /\ sw_index' = sw_index + 1
        /\ SweepCalled("sweep_step", memory.id, None)
        /\ UNCHANGED <<sw_pc, sw_now, sw_messages, sw_create_tombstones>>

\* MessageReaper.sweep after its loop: the result is returned
sweep_return ==
    /\ sw_pc = "listed"
    /\ sw_index > Len(sw_messages)
    /\ sw_pc' = "idle"
    /\ SweepCalled("sweep", [create_tombstones |-> sw_create_tombstones], sw_result)
    /\ UNCHANGED <<memories, next_id, forgotten, sw_now, sw_messages, sw_index,
                   sw_create_tombstones, sw_result>>

NextSweeping ==
    \/ tick
    \/ \E message \in StoredMessages : store_message(message)
    \/ \E thread_id \in Threads : get_thread_messages(thread_id)
    \/ \E create_tombstones \in BOOLEAN : sweep_list(create_tombstones)
    \/ sweep_step
    \/ sweep_return

SpecSweeping == InitStore /\ [][NextSweeping]_vars

(***************************************************************************)
(* SpecCipher: GroupMessageEncryptor.encrypt and decrypt called with the   *)
(* keys of two groups; decrypt is given the outputs of encrypt and what    *)
(* becomes of them when they are altered on the way.                       *)
(***************************************************************************)
\* os.urandom(12): the number of bytes drawn for a nonce
NONCE_BYTES == 12

\* the group keys in use
CipherKeys == {1, 2}

\* a crypto call: it is recorded and changes nothing but what is named
CryptoCalled(op, arg, ret) ==
    /\ call' = [op |-> op, arg |-> arg, ret |-> ret]
    /\ UNCHANGED <<members, group_key, key_version, message_count, keyLog,
                   concVars, fileVars, storeVars, sweepVars, inboxVars, reactVars, deliverVars>>

\* encrypt with a nonce that is computed from the key
group_encrypt_nonce_of_key(plaintext, group_key_hex) ==
    LET nonce == [bytes |-> NONCE_BYTES, value |-> group_key_hex]
        encrypted_b64 == encrypt(plaintext, group_key_hex, nonce)
    IN  /\ Len(sealed) < MaxSealed
        /\ entropy' = entropy + 1
        /\ sealed' = Append(sealed, [plaintext |-> plaintext, key |-> group_key_hex,
                                     output |-> encrypted_b64])
        /\ CryptoCalled("encrypt", [plaintext |-> plaintext, group_key_hex |-> group_key_hex],
                        encrypted_b64)
        /\ UNCHANGED produced

\* GroupMessageEncryptor.encrypt(plaintext, group_key_hex): the nonce is drawn
\* inside the call
group_encrypt(plaintext, group_key_hex) ==
    LET nonce == [bytes |-> NONCE_BYTES, value |-> urandom]
        encrypted_b64 == encrypt(plaintext, group_key_hex, nonce)
    IN  /\ Len(sealed) < MaxSealed
        /\ entropy' = entropy + 1
        /\ sealed' = Append(sealed, [plaintext |-> plaintext, key |-> group_key_hex,
                                     output |-> encrypted_b64])
        /\ CryptoCalled("encrypt", [plaintext |-> plaintext, group_key_hex |-> group_key_hex],
                        encrypted_b64)
        /\ UNCHANGED produced

\* GroupMessageEncryptor.decrypt(encrypted_b64, group_key_hex)
group_decrypt(encrypted_b64, group_key_hex) ==
    /\ CryptoCalled("decrypt",
                    [encrypted_b64 |-> encrypted_b64, group_key_hex |-> group_key_hex],
                    decrypt(encrypted_b64, group_key_hex))
    /\ UNCHANGED <<entropy, sealed, produced>>

\* an output of encrypt whose bytes were changed on the way: another nonce,
\* another body, another tag
Tampered(encrypted_b64) ==
    LET raw == b64decode(encrypted_b64)
    IN  {b64encode([raw EXCEPT !.nonce.value = 0]),
         b64encode([raw EXCEPT !.body = CHOOSE p \in Plaintexts : p # raw.body]),
         b64encode([raw EXCEPT !.tag = <<>>])}

\* an output of encrypt whose text got a line break at its end
Wrapped(encrypted_b64) == Append(encrypted_b64, "\n")

\* what encrypt has returned so far
Outputs == {sealed[i].output : i \in 1..Len(sealed)}

NextCipher ==
    \/ \E plaintext \in Plaintexts, key \in CipherKeys : group_encrypt(plaintext, key)
    \/ \E encrypted_b64 \in Outputs, key \in CipherKeys : group_decrypt(encrypted_b64, key)
    \/ \E returned \in Outputs, key \in CipherKeys :
          \E encrypted_b64 \in Tampered(returned) \cup {Wrapped(returned)} :
             group_decrypt(encrypted_b64, key)

SpecCipher == InitStore /\ [][NextCipher]_vars

(***************************************************************************)
(* transport.py, crypto.py: ChatTransport.send_message with a ChatCrypto.  *)
(* A PGP message is the pair of the key it was encrypted to and the text   *)
(* inside; a signature names the signer and the text signed.               *)
(***************************************************************************)
\* ChatTransport._crypto: no engine, an engine that holds the private key of alice
\* and the passphrase that unlocks it, and one whose passphrase does not unlock
\* its key
Cryptos == {"none", "alice", "locked"}
\* what skcomm.send does with the payload
SendOutcomes == {"delivered", "undelivered", "raises"}

\* the exception a ChatCrypto method raises
Raised(error) == [raised |-> error]

\* str(recipient_key.encrypt(pgp_message)): the armored PGP message
pgp_encrypt(text, recipient_public_armor) ==
    "-----BEGIN PGP MESSAGE----- to " \o recipient_public_armor \o ": " \o text

\* the private key of the engine opens the armored text
pgp_opens(content, crypto) ==
    \E text \in Plaintexts : content = pgp_encrypt(text, crypto)

\* self._private_key.decrypt(pgp_message).message
pgp_decrypt(content, crypto) ==
    CHOOSE text \in Plaintexts : content = pgp_encrypt(text, crypto)

\* a signature field that holds text which is no PGP signature
MalformedSignature == [malformed |-> TRUE]

\* encrypt_message that loads the recipient's key before it looks at the flag
encrypt_message_loading_key_first(crypto, message, recipient_public_armor) ==
    IF ~is_pgp_key(recipient_public_armor) \/ crypto = "locked"
    THEN Raised("EncryptionError")
    ELSE IF message.encrypted THEN message
         ELSE [message EXCEPT
                 !.content = pgp_encrypt(message.content, recipient_public_armor),
                 !.encrypted = TRUE,
                 !.signature = [signed_with |-> crypto, over |-> message.content]]

\* ChatCrypto.encrypt_message: the encrypted copy, or EncryptionError when pgpy
\* rejects the recipient's armor or the private key does not unlock
encrypt_message(crypto, message, recipient_public_armor) ==
    IF message.encrypted THEN message
    ELSE IF ~is_pgp_key(recipient_public_armor) \/ crypto = "locked"
         THEN Raised("EncryptionError")
         ELSE [message EXCEPT
                 !.content = pgp_encrypt(message.content, recipient_public_armor),
                 !.encrypted = TRUE,
                 !.signature = [signed_with |-> crypto, over |-> message.content]]

\* decrypt_message that leaves the encrypted flag as it was
decrypt_message_keeping_flag(crypto, message) ==
    IF ~message.encrypted THEN message
    ELSE IF crypto = "locked" \/ ~pgp_opens(message.content, crypto)
         THEN Raised("DecryptionError")
         ELSE [message EXCEPT !.content = pgp_decrypt(message.content, crypto)]

\* ChatCrypto.decrypt_message: the decrypted copy, or DecryptionError when the
\* content is no PGP message, the private key does not unlock or does not open it
decrypt_message(crypto, message) ==
    IF ~message.encrypted THEN message
    ELSE IF crypto = "locked" \/ ~pgp_opens(message.content, crypto)
         THEN Raised("DecryptionError")
         ELSE [message EXCEPT !.content = pgp_decrypt(message.content, crypto),
                              !.encrypted = FALSE]

\* verify_signature that accepts the signature of any key
verify_signature_of_any_key(message, sender_public_armor) ==
    IF message.signature = None THEN FALSE
    ELSE IF ~is_pgp_key(sender_public_armor) \/ message.signature = MalformedSignature
         THEN FALSE
         ELSE message.signature.over = message.content

\* ChatCrypto.verify_signature: pgpy raises on text that is no key or no
\* signature and when the signature was not made by the key, which gives False
verify_signature(message, sender_public_armor) ==
    IF message.signature = None THEN FALSE
    ELSE IF ~is_pgp_key(sender_public_armor) \/ message.signature = MalformedSignature
         THEN FALSE
         ELSE /\ message.signature.signed_with = sender_public_armor
              /\ message.signature.over = message.content

\* ChatCrypto.sign_message
sign_message(crypto, message) ==
    IF crypto = "locked" THEN Raised("SigningError")
    ELSE [message EXCEPT !.signature = [signed_with |-> crypto, over |-> message.content]]

\* the try block of send_message: what is sent when encryption is asked for
encrypt_outbound(crypto, message, recipient_public_armor) ==
    LET encrypted == encrypt_message(crypto, message, recipient_public_armor)
    IN  IF encrypted = Raised("EncryptionError") THEN message
        ELSE LET signed == sign_message(crypto, encrypted)
             IN  IF signed = Raised("SigningError") THEN encrypted ELSE signed

\* outbound.model_dump_json()
model_dump_json(message) == <<"json", message>>
\* ChatMessage.model_validate_json
model_validate_json(payload) == payload[2]

\* ChatTransport.send_message on a transport built with the given crypto
send_message(crypto, message, recipient_public_armor, outcome) ==
    LET outbound == IF crypto # "none" /\ recipient_public_armor # ""
                    THEN encrypt_outbound(crypto, message, recipient_public_armor)
                    ELSE message
        delivered == outcome = "delivered"
        stored_msg == [message EXCEPT
                         !.delivery_status = IF delivered THEN "sent" ELSE "failed"]
    IN  /\ next_id <= MaxIds
        /\ wire' = Append(wire, model_dump_json(outbound))
        /\ memories' = Append(memories, message_memory(stored_msg, next_id, now))
        /\ next_id' = next_id + 1
        /\ call' = [op |-> "send_message",
                    arg |-> [crypto |-> crypto, message |-> message,
                             recipient_public_armor |-> recipient_public_armor],
                    ret |-> [delivered |-> delivered, recipient |-> message.recipient,
                             error |-> outcome = "raises"]]
        /\ UNCHANGED <<members, group_key, key_version, message_count, entropy, keyLog,
                       concVars, fileVars, now, forgotten, sweepVars, inboxVars, reactVars, deliverVars, cryptoVars>>

(***************************************************************************)
(* SpecTransport: messages are sent through transports with and without a  *)
(* crypto engine, to recipients with and without a usable public key.      *)
(***************************************************************************)
NextTransport ==
    \/ tick
    \/ \E crypto \in Cryptos, message \in StoredMessages,
          armor \in Armors("bob"), outcome \in SendOutcomes :
          send_message(crypto, message, armor, outcome)

SpecTransport == InitStore /\ [][NextTransport]_vars

(***************************************************************************)
(* SpecCrypto: one ChatMessage is handed through the methods of the        *)
(* ChatCrypto engines of alice and bob, and of an engine whose passphrase  *)
(* is wrong; on the way its content, its signature or its encrypted flag   *)
(* can be changed.                                                         *)
(***************************************************************************)
\* the ChatCrypto objects: named by the identity whose private key they hold
Engines == {"alice", "bob", "locked"}

\* the public key armors given to encrypt_message and verify_signature
CryptoArmors == {"not a key", "alice", "bob"}

\* a ChatCrypto method returned (or raised) ret; a message it returned is the one
\* handed on
Handed(ret) ==
    /\ produced' = IF ret \in {Raised("EncryptionError"), Raised("DecryptionError"),
                               Raised("SigningError")}
                   THEN produced ELSE ret
    /\ UNCHANGED <<entropy, sealed>>

\* a new message of alice to bob
compose(content) ==
    LET message == ChatMessage("alice", "bob", content, "t1", NoTtl)
    IN  /\ CryptoCalled("compose", content, message)
        /\ Handed(message)

encrypt_message_call(crypto, recipient_public_armor) ==
    LET ret == encrypt_message(crypto, produced, recipient_public_armor)
    IN  /\ CryptoCalled("encrypt_message",
                        [crypto |-> crypto, message |-> produced,
                         recipient_public_armor |-> recipient_public_armor], ret)
        /\ Handed(ret)

decrypt_message_call(crypto) ==
    LET ret == decrypt_message(crypto, produced)
    IN  /\ CryptoCalled("decrypt_message", [crypto |-> crypto, message |-> produced], ret)
        /\ Handed(ret)

sign_message_call(crypto) ==
    LET ret == sign_message(crypto, produced)
    IN  /\ CryptoCalled("sign_message", [crypto |-> crypto, message |-> produced], ret)
        /\ Handed(ret)

verify_signature_call(sender_public_armor) ==
    /\ CryptoCalled("verify_signature",
                    [message |-> produced, sender_public_armor |-> sender_public_armor],
                    verify_signature(produced, sender_public_armor))
    /\ UNCHANGED <<entropy, sealed, produced>>

\* the message reaches the next call with another content, with a signature
\* field that is no signature, or with the encrypted flag set
alter_content(content) ==
    /\ content # produced.content
    /\ CryptoCalled("alter_content", content, None)
    /\ Handed([produced EXCEPT !.content = content])

alter_signature ==
    /\ CryptoCalled("alter_signature", None, None)
    /\ Handed([produced EXCEPT !.signature = MalformedSignature])

mark_encrypted ==
    /\ CryptoCalled("mark_encrypted", None, None)
    /\ Handed([produced EXCEPT !.encrypted = TRUE])

InitCrypto ==
    /\ members = <<GroupMember("alice", "admin", "", <<>>)>>
    /\ group_key = 1
    /\ key_version = 1
    /\ message_count = 0
    /\ entropy = 1
    /\ keyLog = <<<<1, 1>>>>
    /\ call = [op |-> "create", arg |-> "alice", ret |-> "group"]
    /\ ConcIdle
    /\ FilesIdle
    /\ StoreIdle
    /\ SweepIdle
    /\ InboxIdle
    /\ ReactIdle
    /\ DeliveryIdle
    /\ sealed = <<>>
    /\ \E content \in Plaintexts : produced = ChatMessage("alice", "bob", content, "t1", NoTtl)

NextCrypto ==
    \/ \E content \in Plaintexts : compose(content)
    \/ \E crypto \in Engines, armor \in CryptoArmors : encrypt_message_call(crypto, armor)
    \/ \E crypto \in Engines : decrypt_message_call(crypto)
    \/ \E crypto \in Engines : sign_message_call(crypto)
    \/ \E armor \in CryptoArmors : verify_signature_call(armor)
    \/ \E content \in Plaintexts : alter_content(content)
    \/ alter_signature
    \/ mark_encrypted

SpecCrypto == InitCrypto /\ [][NextCrypto]_vars

(***************************************************************************)
(* SpecReactions: two peers, each with a ReactionManager.  A peer reacts   *)
(* and withdraws reactions locally, and applies the events it finds in the *)
(* pending events of the other peer.                                       *)
(***************************************************************************)
\* a call of a ReactionManager: it is recorded and changes nothing but the
\* managers and the ids handed out
ReactCalled(op, arg, ret) ==
    /\ call' = [op |-> op, arg |-> arg, ret |-> ret]
    /\ UNCHANGED <<members, group_key, key_version, message_count, entropy, keyLog,
                   concVars, fileVars, storeVars, sweepVars, inboxVars, cryptoVars, deliverVars>>

\* ReactionEvent(message_id=..., emoji=..., sender=..., action=...): event_id is
\* the next fresh uuid
ReactionEvent(event_id, message_id, emoji, sender, action) ==
    [event_id |-> event_id, message_id |-> message_id, emoji |-> emoji, sender |-> sender,
     action |-> action]

\* any(r.emoji == emoji and r.sender == sender for r in reactions)
reacted(reactions_, emoji, sender) ==
    \E i \in 1..Len(reactions_) : reactions_[i].emoji = emoji /\ reactions_[i].sender = sender

\* ReactionManager.add_reaction: the manager after the call and what it returns
add_reaction(manager, message_id, emoji, sender, event_id) ==
    IF reacted(manager.reactions[message_id], emoji, sender)
    THEN [manager |-> manager, ret |-> FALSE]
    ELSE [manager |-> [manager EXCEPT
                          !.reactions[message_id] =
                               Append(@, [emoji |-> emoji, sender |-> sender]),
                          !.event_log =
                               Append(@, ReactionEvent(event_id, message_id, emoji, sender,
                                                       "add"))],
          ret |-> TRUE]

\* ReactionManager.remove_reaction: the manager after the call and what it returns
remove_reaction(manager, message_id, emoji, sender, event_id) ==
    LET kept == SelectSeq(manager.reactions[message_id],
                          LAMBDA r : ~(r.emoji = emoji /\ r.sender = sender))
        removed == Len(kept) < Len(manager.reactions[message_id])
    IN  [manager |-> [manager EXCEPT
                         !.reactions[message_id] = kept,
                         !.event_log =
                              IF removed
                              THEN Append(@, ReactionEvent(event_id, message_id, emoji,
                                                           sender, "remove"))
                              ELSE @],
         ret |-> removed]

\* ReactionManager.apply_event: the manager after the call and what it returns
apply_event(manager, event, event_id) ==
    IF event.event_id \in manager.seen_events
    THEN [manager |-> manager, ret |-> FALSE]
    ELSE LET seen == [manager EXCEPT !.seen_events = @ \cup {event.event_id}]
         IN  IF event.action = "add"
             THEN add_reaction(seen, event.message_id, event.emoji, event.sender, event_id)
             ELSE IF event.action = "remove"
             THEN remove_reaction(seen, event.message_id, event.emoji, event.sender,
                                  event_id)
             ELSE [manager |-> seen, ret |-> FALSE]

\* ReactionManager.pending_events() of a peer
pending_events(peer) == managers[peer].event_log

\* uuid.uuid4(): an id no event has had
fresh_uuid == uuid4 + 1

\* a call at one peer: its manager becomes the one the call leaves, and the uuid
\* is used up when the call has logged an event
manager_call(peer, op, arg, outcome) ==
    /\ Len(outcome.manager.event_log) > Len(managers[peer].event_log) => uuid4 < MaxEvents
    /\ managers' = [managers EXCEPT ![peer] = outcome.manager]
    /\ uuid4' = IF Len(outcome.manager.event_log) > Len(managers[peer].event_log)
                THEN fresh_uuid ELSE uuid4
    /\ ReactCalled(op, arg, outcome.ret)

add_reaction_call(peer, message_id, emoji, sender) ==
    manager_call(peer, "add_reaction", [peer |-> peer, emoji |-> emoji, sender |-> sender],
                 add_reaction(managers[peer], message_id, emoji, sender, fresh_uuid))

remove_reaction_call(peer, message_id, emoji, sender) ==
    manager_call(peer, "remove_reaction",
                 [peer |-> peer, emoji |-> emoji, sender |-> sender],
                 remove_reaction(managers[peer], message_id, emoji, sender, fresh_uuid))

\* a peer applies one of the events the other peer has pending
apply_event_call(peer, event) ==
    manager_call(peer, "apply_event", [peer |-> peer, event |-> event],
                 apply_event(managers[peer], event, fresh_uuid))

InitReactions == InitStore

NextReactions ==
    \/ \E peer \in Peers, message_id \in MessageIds, emoji \in Emojis, sender \in Reactors :
          add_reaction_call(peer, message_id, emoji, sender)
    \/ \E peer \in Peers, message_id \in MessageIds, emoji \in Emojis, sender \in Reactors :
          remove_reaction_call(peer, message_id, emoji, sender)
    \/ \E peer \in Peers, other \in Peers :
          /\ other # peer
          /\ \E event \in Range(pending_events(other)) : apply_event_call(peer, event)

SpecReactions == InitReactions /\ [][NextReactions]_vars

(***************************************************************************)
(* SpecInbox: alice's transport sends messages that carry the time they    *)
(* were composed; what is on the wire can get a signature of another key;  *)
(* bob's transport polls its inbox with or without a crypto engine and     *)
(* with or without the public key of alice.  The reaper's and the          *)
(* message's expiry tests are called on what is on the wire.               *)
(***************************************************************************)
\* a call on the receiving side: it is recorded and leaves alone the group, the
\* file transfer and the store of the sender
InboxCalled(op, arg, ret) ==
    /\ call' = [op |-> op, arg |-> arg, ret |-> ret]
    /\ UNCHANGED <<members, group_key, key_version, message_count, entropy, keyLog,
                   concVars, fileVars, now, memories, next_id, forgotten, sweepVars,
                   cryptoVars, deliverVars, reactVars>>

\* ChatMessage.timestamp and ChatMessage.metadata: the message with the time it
\* was composed at and no metadata
stamped(message, timestamp) ==
    [field \in DOMAIN message \cup {"timestamp", "metadata"} |->
        IF field = "timestamp" THEN timestamp
        ELSE IF field = "metadata" THEN {}
        ELSE message[field]]

\* MessageReaper.is_expired at the instant now_
is_expired(message, now_) ==
    IF message.ttl = NoTtl THEN FALSE
    ELSE now_ >= message.timestamp + message.ttl[1]

\* ChatMessage.is_expired at the instant now_
message_is_expired(message, now_) ==
    IF message.ttl = NoTtl THEN FALSE
    ELSE (now_ - message.timestamp) > message.ttl[1]

\* the test of sweep on the memory of a message: lines 98-113
sweep_expires(memory, now_) ==
    IF memory.metadata.ttl = NoTtl THEN FALSE
    ELSE due(now_, memory.created_at + memory.metadata.ttl[1])

\* MessageReaper.reject_if_expired
reject_if_expired(message, now_) == is_expired(message, now_)

\* the message of one envelope as poll_inbox stores and returns it
polled(crypto, sender_public_armor, payload) ==
    LET msg == model_validate_json(payload)
        decrypted == IF crypto # "none" /\ msg.encrypted
                     THEN decrypt_message(crypto, msg)
                     ELSE msg
        opened == IF decrypted = Raised("DecryptionError") THEN msg ELSE decrypted
        checked == IF sender_public_armor # "" /\ opened.signature # None /\ crypto # "none"
                   THEN [opened EXCEPT !.metadata =
                            {<<"signature_valid",
                               verify_signature(opened, sender_public_armor)>>}]
                   ELSE opened
    IN  [checked EXCEPT !.delivery_status = "delivered"]

\* [polled(e) for e in envelopes]
RECURSIVE polled_all(_, _, _)
polled_all(crypto, sender_public_armor, envelopes) ==
    IF envelopes = <<>> THEN <<>>
    ELSE <<polled(crypto, sender_public_armor, Head(envelopes))>>
            \o polled_all(crypto, sender_public_armor, Tail(envelopes))

\* self._history.store_message(msg) for every message of the list
RECURSIVE stored_all(_, _)
stored_all(history, messages) ==
    IF messages = <<>> THEN history
    ELSE stored_all(Append(history, message_memory(Head(messages), Len(history) + 1, now)),
                    Tail(messages))

\* ChatTransport.poll_inbox of the receiving transport: every envelope that
\* skcomm.receive hands over is processed, stored and returned
poll_inbox(crypto, sender_public_armor) ==
    LET messages == polled_all(crypto, sender_public_armor, wire)
    IN  /\ wire # <<>>
        /\ wire' = <<>>
        /\ inbox' = stored_all(inbox, messages)
        /\ InboxCalled("poll_inbox",
                       [crypto |-> crypto, sender_public_armor |-> sender_public_armor,
                        envelopes |-> wire],
                       messages)

\* on the wire the signature of a message is replaced by one that another key
\* made over the same content
forge(i) ==
    LET msg == model_validate_json(wire[i])
    IN  /\ msg.signature # None
        /\ msg.signature.signed_with # "carol"
        /\ wire' = [wire EXCEPT ![i] =
                       model_dump_json([msg EXCEPT !.signature.signed_with = "carol"])]
        /\ InboxCalled("forge", i, None)
        /\ UNCHANGED inbox

\* the expiry tests are called on a message that has arrived
expiry_tests(message) ==
    /\ InboxCalled("is_expired", message,
                   [reaper |-> is_expired(message, now),
                    message |-> message_is_expired(message, now),
                    sweep |-> sweep_expires(message_memory(message, 0, message.timestamp),
                                            now),
                    reject |-> reject_if_expired(message, now)])
    /\ UNCHANGED <<wire, inbox>>

\* the engines of the receiving transport
Receivers == {"none", "bob"}

NextInbox ==
    \/ tick
    \/ \E crypto \in {"none", "alice"}, message \in StoredMessages, armor \in {"", "bob"} :
          send_message(crypto, stamped(message, now), armor, "delivered")
    \/ \E i \in 1..Len(wire) : forge(i)
    \/ \E crypto \in Receivers, sender_public_armor \in {"", "alice"} :
          poll_inbox(crypto, sender_public_armor)
    \/ \E i \in 1..Len(wire) : expiry_tests(model_validate_json(wire[i]))

SpecInbox == InitStore /\ [][NextInbox]_vars

(***************************************************************************)
(* Properties of the group key life cycle.                                 *)
(***************************************************************************)
RemovedOk(c) == c.op = "remove_member" /\ c.ret = TRUE

\* C1: remove_member(x) on a group that contains x returns true, leaves x out of
\* the members, raises key_version by exactly one and installs a group_key that
\* differs from the one before the call.
C1_RemoveRotates ==
    [][\A x \in Identities :
         (call'.op = "remove_member" /\ call'.arg = x /\ get_member(members, x) # None)
         => /\ call'.ret = TRUE
            /\ get_member(members', x) = None
            /\ key_version' = key_version + 1
            /\ group_key' # group_key]_vars

\* a member was removed from a group of three
C1_Witness == RemovedOk(call) /\ Len(members) = 2 /\ key_version = 2

\* C2 as claimed: key_version rises on every successful removal, changes on no
\* other operation of GroupChat, and group_key changes exactly when key_version does.
C2_OnlyRemovalChangesVersion ==
    [][/\ RemovedOk(call') => key_version' > key_version
       /\ key_version' # key_version => RemovedOk(call')
       /\ (group_key' # group_key) <=> (key_version' # key_version)]_vars

\* C2 as amended: key_version rises by one on every successful removal and on every
\* direct call of rotate_key, changes on no other operation, and group_key changes
\* exactly when key_version does.
C2_VersionChangesOnRotation ==
    [][/\ (RemovedOk(call') \/ call'.op = "rotate_key") => key_version' = key_version + 1
       /\ key_version' # key_version => (RemovedOk(call') \/ call'.op = "rotate_key")
       /\ (group_key' # group_key) <=> (key_version' # key_version)]_vars

\* a removal after an earlier rotation, and later an operation that rotates nothing
C2_Witness ==
    /\ call.op \in {"add_member", "set_tool_scope", "compose_group_message", "touch"}
    /\ key_version = 3

\* C3: once remove_member has succeeded, a message encrypted under the key then in
\* force does not decrypt under any key that was in force before the removal:
\* decrypt fails with the group decryption error.
C3_ForwardSecrecy ==
    [][RemovedOk(call') =>
         \A i \in 1..Len(keyLog), plaintext \in Plaintexts :
            decrypt(encrypt(plaintext, group_key', entropy' + 1), keyLog[i][2])
               = GroupDecryptionError]_vars

\* a second removal: two earlier keys exist that must not open new messages
C3_Witness == RemovedOk(call) /\ Len(keyLog) = 3

\* C6 as claimed: rotate_key replaces group_key and raises key_version by one, and
\* no key_version value is ever installed with two different keys, also when
\* key_version was set back between rotations.
C6_VersionNeverReused ==
    [][/\ call'.op = "rotate_key" =>
              (key_version' = key_version + 1 /\ group_key' # group_key)
       /\ call'.op # "set_key_version" => key_version' >= key_version
       /\ \A i, j \in 1..Len(keyLog') :
              keyLog'[i][1] = keyLog'[j][1] => keyLog'[i][2] = keyLog'[j][2]]_vars

(***************************************************************************)
(* Properties of concurrent callers.                                       *)
(***************************************************************************)
\* C4 as claimed: when two concurrent remove_member calls for two different members
\* have both returned true, both members are gone and key_version has risen by two.
C4_ConcurrentRemovals ==
    (/\ pc["t1"] = "done" /\ pc["t2"] = "done"
     /\ rm_removed["t1"] /\ rm_removed["t2"]
     /\ rm_arg["t1"] # rm_arg["t2"])
    => /\ get_member(members, rm_arg["t1"]) = None
       /\ get_member(members, rm_arg["t2"]) = None
       /\ key_version = 3

\* C5 as claimed: the key_version a reader sees belongs to the group_key it sees:
\* the pair was installed together, by create or by one rotate_key.
C5_ConsistentSnapshot ==
    rd_pc = "done" =>
        \E i \in 1..Len(keyLog) : keyLog[i] = <<rd_message.key_version, rd_key>>

(***************************************************************************)
(* Properties of the chunked transfer.                                     *)
(***************************************************************************)
Assembled(c) == c.op = "assemble" /\ c.ret.raised = ""

\* C7: when the transfer is registered and the receiver holds every chunk of the
\* session and no other chunk, in whatever order and with whatever repetitions
\* they were delivered, assemble with the session secret returns normally, writes
\* exactly the bytes of the file and reports verified = true.
C7_RoundTrip ==
    [][(/\ call'.op = "assemble"
        /\ sender_pc = "chunked"
        /\ call'.arg = transfer.transfer_key
        /\ receiver_transfers # None
        /\ Range(receiver_chunks) = Range(sent))
       => /\ call'.ret.raised = ""
          /\ output' = file
          /\ call'.ret.verified]_vars

\* a file of three bytes in chunks of two, delivered last chunk first, assembled
C7_Witness ==
    /\ Assembled(call)
    /\ Len(file) = 3 /\ Len(sent) = 2
    /\ receiver_transfers # None
    /\ receiver_chunks = <<sent[2], sent[1]>>
    /\ output = file
    /\ call.ret.verified

\* C8 as claimed: assemble returns a result only when is_complete is true; in any
\* other state of the receiver it fails with the incomplete-transfer error.
C8_AssembleOnlyWhenComplete ==
    [][(call'.op = "assemble" /\ ~is_complete)
       => call'.ret.raised = "Missing chunks"]_vars

\* C9: receive_chunk returns true for a sequence number not stored yet and stores
\* the chunk; it returns false for a sequence number already stored and leaves the
\* stored chunks as they are; and no operation ever drops or replaces a stored
\* chunk, so every later delivery of that sequence number is rejected.
C9_DuplicateRejected ==
    [][/\ call'.op = "receive_chunk" =>
            IF call'.arg.sequence \in sequences(receiver_chunks)
            THEN call'.ret = FALSE /\ receiver_chunks' = receiver_chunks
            ELSE call'.ret = TRUE /\ receiver_chunks' = Append(receiver_chunks, call'.arg)
       /\ Len(receiver_chunks') >= Len(receiver_chunks)
       /\ \A i \in 1..Len(receiver_chunks) : receiver_chunks'[i] = receiver_chunks[i]]_vars

\* a chunk was rejected whose data differs from the data stored under its number
C9_Witness ==
    /\ call.op = "receive_chunk"
    /\ call.ret = FALSE
    /\ \E i \in 1..Len(receiver_chunks) :
          /\ receiver_chunks[i].sequence = call.arg.sequence
          /\ receiver_chunks[i].data # call.arg.data

\* C10 as claimed: a result of assemble has verified = true exactly when the hash
\* of the output equals the hash recorded in the registered session; verified is
\* never true when no recorded hash was there to compare with.
C10_VerifiedMeansCompared ==
    [][Assembled(call') =>
         (call'.ret.verified <=>
            IF receiver_transfers = None THEN FALSE
            ELSE hash_file(output') = receiver_transfers.sha256)]_vars


(***************************************************************************)
(* Properties of membership, tool scoping and message composition.         *)
(***************************************************************************)
\* C15: set_tool_scope(target, scope, by_admin) returns true and sets the target's
\* tool_scope to exactly scope when by_admin is a current admin and target is a
\* current member; in every other case it returns false and changes nothing of
\* the group.
C15_ScopeSetOnlyByAdmin ==
    [][call'.op = "set_tool_scope" =>
         \A target \in {call'.arg}, scope \in Scopes, by_admin \in Identities :
           set_tool_scope(target, scope, by_admin) =>
             IF is_admin(members, by_admin) /\ get_member(members, target) # None
             THEN /\ call'.ret = TRUE
                  /\ Len(members') = Len(members)
                  /\ \A i \in 1..Len(members) :
                        members'[i] = IF members[i].identity_uri = target
                                      THEN [members[i] EXCEPT !.tool_scope = scope]
                                      ELSE members[i]
                  /\ UNCHANGED <<group_key, key_version, message_count>>
             ELSE /\ call'.ret = FALSE
                  /\ UNCHANGED <<members, group_key, key_version, message_count>>]_vars

\* an admin has restricted a plain member to an allow-list
C15_Witness ==
    /\ call.op = "set_tool_scope"
    /\ call.ret = TRUE
    /\ get_member(members, call.arg).role = "member"
    /\ get_member(members, call.arg).tool_scope = <<"sksecurity.audit">>

C17_ToolGate ==
    \A identity_uri \in Identities, tool_name \in ToolNames :
        LET member == get_member(members, identity_uri)
        IN  can_invoke_tool(members, identity_uri, tool_name) =
              CASE member = None -> FALSE
                [] member.role = "admin" -> TRUE
                [] member.tool_scope = <<>> -> TRUE
                [] OTHER -> \E i \in 1..Len(member.tool_scope) :
                               member.tool_scope[i] = tool_name

\* the group holds an admin with an allow-list, a plain member with an allow-list
\* and lacks the third identity
C17_Witness ==
    /\ Len(members) = 2
    /\ \E i, j \in 1..2 :
         /\ members[i].role = "admin" /\ members[i].tool_scope # <<>>
         /\ members[j].role = "member" /\ members[j].tool_scope # <<>>
    /\ \E u \in Identities : get_member(members, u) = None

\* C18: add_member on an identity that is already a member returns None and changes
\* nothing, and no two entries of members ever share an identity_uri.
C18_NoDuplicateMember ==
    [][/\ (call'.op = "add_member" /\ get_member(members, call'.arg) # None)
          => /\ call'.ret = None
             /\ UNCHANGED <<members, group_key, key_version, message_count>>
       /\ \A i, j \in 1..Len(members') :
            members'[i].identity_uri = members'[j].identity_uri => i = j]_vars

\* add_member was refused for an identity that is already in a group of three
C18_Witness ==
    /\ call.op = "add_member"
    /\ call.ret = None
    /\ Len(members) = 3
    /\ get_member(members, call.arg) # None

\* C20: remove_member(B) leaves every remaining member, and what can_invoke_tool
\* answers for it, as it was, and can_invoke_tool(B, t) is false afterwards.
C20_RemovalKeepsOthers ==
    [][RemovedOk(call') =>
         /\ \A c \in Identities \ {call'.arg} :
              /\ get_member(members', c) = get_member(members, c)
              /\ \A t \in ToolNames :
                   can_invoke_tool(members', c, t) = can_invoke_tool(members, c, t)
         /\ \A t \in ToolNames : ~can_invoke_tool(members', call'.arg, t)]_vars

\* a member was removed from a group in which a remaining plain member holds an
\* allow-list
C20_Witness ==
    /\ RemovedOk(call)
    /\ Len(members) = 2
    /\ \E i \in 1..2 : members[i].role = "member" /\ members[i].tool_scope # <<>>

\* C19: distribute_key returns a map over exactly the current members' identities;
\* a member's entry is None exactly when the member has no usable public key, and
\* every other entry wraps the group_key in force to that member's public key.
C19_KeyDistribution ==
    [][call'.op = "distribute_key" =>
         /\ DOMAIN call'.ret = {members[i].identity_uri : i \in 1..Len(members)}
         /\ \A i \in 1..Len(members) :
              LET entry == call'.ret[members[i].identity_uri]
                  armor == members[i].public_key_armor
              IN  /\ (entry = None) <=> (armor \notin Identities)
                  /\ entry # None =>
                       /\ entry.pgp_message_for = armor
                       /\ entry.message = group_key
                       /\ entry.message = keyLog[Len(keyLog)][2]]_vars

\* after a rotation the key was distributed to a group of three in which one
\* member has no key, one has text that is no key, and one has a key
C19_Witness ==
    /\ call.op = "distribute_key"
    /\ key_version > 1
    /\ Len(members) = 3
    /\ \E i, j, k \in 1..3 :
         /\ members[i].public_key_armor = ""
         /\ members[j].public_key_armor = "not a key"
         /\ members[k].public_key_armor = members[k].identity_uri
         /\ call.ret[members[i].identity_uri] = None
         /\ call.ret[members[j].identity_uri] = None
         /\ call.ret[members[k].identity_uri].message = group_key

(***************************************************************************)
(* Properties of the ephemeral enforcer.                                   *)
(***************************************************************************)
\* the tombstones a step has added for the memory with the given id
NewTombstones(id) ==
    {i \in 1..Len(memories') :
        /\ TOMBSTONE_TAG \in memories'[i].tags
        /\ memories'[i].id >= next_id
        /\ memories'[i].metadata.original_id = id}

\* the stored messages that have a ttl, by their place in the store
Ephemeral == {i \in 1..Len(memories) : /\ MESSAGE_TAG \in memories[i].tags
                                       /\ memories[i].metadata.ttl # NoTtl}

\* the ttl of the stored message at place i has run out
RunOut(i) == now >= memories[i].created_at + memories[i].metadata.ttl[1]

\* C11: a sweep at time now deletes a stored message with TTL ttl created at t0
\* exactly when now >= t0 + ttl.  Before that the message stays stored, gets no
\* tombstone and is counted in active_ephemeral; from then on it is deleted,
\* counted in expired and, with tombstones enabled, gets exactly one tombstone
\* carrying its id as original_id.
C11_SweepExpiresAtTtl ==
    [][call'.op = "sweep" =>
         /\ \A i \in Ephemeral :
              LET stored == \E j \in 1..Len(memories') : memories'[j] = memories[i]
              IN  IF RunOut(i)
                  THEN /\ ~stored
                       /\ Cardinality(NewTombstones(memories[i].id)) =
                            IF call'.arg.create_tombstones THEN 1 ELSE 0
                  ELSE /\ stored
                       /\ NewTombstones(memories[i].id) = {}
         /\ call'.ret.expired = Cardinality({i \in Ephemeral : RunOut(i)})
         /\ call'.ret.active_ephemeral = Cardinality({i \in Ephemeral : ~RunOut(i)})]_vars

\* at time 2 a sweep has deleted a message with a ttl of 2 seconds, which was
\* therefore stored at time 0, left a tombstone and counted another message as
\* still active
C11_Witness ==
    /\ call.op = "sweep"
    /\ call.ret.expired = 1
    /\ call.ret.tombstoned = 1
    /\ call.ret.active_ephemeral = 1
    /\ now = 2
    /\ \E i \in 1..Len(memories) :
         /\ TOMBSTONE_TAG \in memories[i].tags
         /\ memories[i].metadata.expired_at = 2
         /\ memories[i].metadata.original_ttl = <<2>>

\* C12: with tombstones enabled, every message a sweep has deleted has a tombstone
\* carrying its id, also when a store call failed or the process died during the
\* sweep; and when creating the tombstone fails the message is not deleted in
\* that sweep.
C12_TombstoneBeforeDelete ==
    [][/\ \A f \in forgotten' :
            f.create_tombstones =>
              \E i \in 1..Len(memories') :
                 /\ TOMBSTONE_TAG \in memories'[i].tags
                 /\ memories'[i].metadata.original_id = f.id
       /\ (call'.op = "sweep" /\ call'.arg.create_tombstones) =>
            \A i \in Ephemeral :
               call'.arg.faults[memories[i].id] = "snapshot_raises" =>
                 \E j \in 1..Len(memories') : memories'[j] = memories[i]]_vars

\* the process died between the two store calls: the tombstone of a message is
\* stored and so is the message
C12_Witness ==
    /\ call.op = "sweep"
    /\ call.arg.create_tombstones
    /\ ~call.ret.returned
    /\ \E i, j \in 1..Len(memories) :
         /\ TOMBSTONE_TAG \in memories[i].tags
         /\ MESSAGE_TAG \in memories[j].tags
         /\ memories[i].metadata.original_id = memories[j].id

\* C13 as claimed: once the age of a stored message has reached its ttl, no read
\* path (thread listing, conversation listing, search) returns its content.
C13_ExpiredNeverRead ==
    [][call'.op \in {"get_thread_messages", "get_conversation", "search_messages"} =>
         \A i \in 1..Len(call'.ret), j \in 1..Len(memories) :
            (memories[j].id = call'.ret[i].memory_id /\ memories[j].metadata.ttl # NoTtl)
               => now - memories[j].created_at < memories[j].metadata.ttl[1]]_vars

(***************************************************************************)
(* Properties of the transport bridge.                                     *)
(***************************************************************************)
\* C14 as claimed: when send_message is called with a crypto engine and a recipient
\* public key and encryption fails, nothing that holds the plaintext content is
\* handed to skcomm.send and the caller gets a failure.
C14_NoPlaintextFallback ==
    [][call'.op = "send_message" =>
         LET crypto == call'.arg.crypto
             message == call'.arg.message
             armor == call'.arg.recipient_public_armor
         IN  (/\ crypto # "none"
              /\ armor # ""
              /\ encrypt_message(crypto, message, armor) = Raised("EncryptionError"))
             => /\ \A i \in (Len(wire) + 1)..Len(wire') :
                     LET sent_message == model_validate_json(wire'[i])
                     IN  sent_message.encrypted
                /\ ~call'.ret.delivered]_vars

(***************************************************************************)
(* Properties of the file transfer, continued.                             *)
(***************************************************************************)
\* C21: for a transfer whose session is registered with the receiver, is_complete
\* holds exactly when the number of distinct sequence numbers received equals
\* the total_chunks of the registered session: not earlier, and not when more
\* sequence numbers than that are stored.
C21_CompleteIffAllReceived ==
    receiver_transfers # None =>
       (is_complete <=>
          Cardinality(sequences(receiver_chunks)) = receiver_transfers.total_chunks)

\* a registered two-chunk transfer is complete, its chunks having arrived out of
\* order
C21_Witness ==
    /\ receiver_transfers # None
    /\ receiver_transfers.total_chunks = 2
    /\ Len(receiver_chunks) = 2
    /\ receiver_chunks[1].sequence = 1
    /\ is_complete

\* C30: the total_chunks that prepare records is the least n with
\* n * chunk_size >= file_size, and chunks yields exactly that many chunks,
\* numbered 0, 1, ... in the order they are yielded, each carrying the
\* transfer_id and the total_chunks of the session.
C30_ChunkCount ==
    /\ sender_pc # "start" =>
          /\ transfer.total_chunks * transfer.chunk_size >= Len(file)
          /\ (transfer.total_chunks - 1) * transfer.chunk_size < Len(file)
    /\ sender_pc = "chunked" =>
          /\ Len(sent) = transfer.total_chunks
          /\ \A i \in 1..Len(sent) :
                /\ sent[i].sequence = i - 1
                /\ sent[i].transfer_id = transfer.transfer_id
                /\ sent[i].total_chunks = transfer.total_chunks

\* a file of three bytes was cut into chunks of two bytes: two chunks
C30_Witness ==
    /\ sender_pc = "chunked"
    /\ Len(file) = 3
    /\ transfer.chunk_size = 2
    /\ Len(sent) = 2
    /\ sent[2].sequence = 1

(***************************************************************************)
(* Properties of the reaper, continued.                                    *)
(***************************************************************************)
\* the stored messages that have no ttl, by their place in the store
Permanent == {i \in 1..Len(memories) : /\ MESSAGE_TAG \in memories[i].tags
                                       /\ memories[i].metadata.ttl = NoTtl}

\* C22: a stored message without ttl outlives every sweep, whenever the sweep
\* runs, with tombstones enabled or not, and also when store calls fail or the
\* process dies: it stays stored as it was, is not among the forgotten ids and
\* gets no tombstone.  A sweep that returns has counted it in scanned and in no
\* other counter.
C22_NoTtlNeverExpires ==
    [][call'.op = "sweep" =>
         /\ \A i \in Permanent :
              /\ \E j \in 1..Len(memories') : memories'[j] = memories[i]
              /\ memories[i].id \notin {f.id : f \in forgotten'}
              /\ \A j \in 1..Len(memories') :
                    TOMBSTONE_TAG \in memories'[j].tags =>
                       memories'[j].metadata.original_id # memories[i].id
         /\ call'.ret.returned =>
              /\ call'.ret.scanned = Cardinality(Permanent) + Cardinality(Ephemeral)
              /\ call'.ret.expired + call'.ret.active_ephemeral + call'.ret.errors
                    = Cardinality(Ephemeral)
              /\ call'.ret.tombstoned <= Cardinality(Ephemeral)]_vars

\* at the last second of the clock a sweep with tombstones has scanned a message
\* without ttl that was stored at time 0, and counted nothing else
C22_Witness ==
    /\ call.op = "sweep"
    /\ call.arg.create_tombstones
    /\ now = MaxTime
    /\ call.ret.scanned >= 1
    /\ call.ret.expired = 0 /\ call.ret.active_ephemeral = 0
    /\ call.ret.tombstoned = 0 /\ call.ret.errors = 0
    /\ \E i \in Permanent : memories[i].created_at = 0

\* the expired messages for which a store call of the sweep c raises
Failing(c) ==
    {i \in Ephemeral :
        /\ RunOut(i)
        /\ \/ c.arg.faults[memories[i].id] = "forget_raises"
           \/ c.arg.create_tombstones /\ c.arg.faults[memories[i].id] = "snapshot_raises"}

\* C23: when store.snapshot or store.forget raises for expired messages during a
\* sweep, the sweep still returns its result; errors is the number of messages
\* whose expiry failed; every listed message is scanned; every other expired
\* message is deleted and counted in expired, and every message that has not
\* expired is counted in active_ephemeral.
C23_SweepSurvivesFailures ==
    [][(/\ call'.op = "sweep"
        /\ \A id \in DOMAIN call'.arg.faults : call'.arg.faults[id] # "crash") =>
         /\ call'.ret.returned
         /\ call'.ret.errors = Cardinality(Failing(call'))
         /\ call'.ret.scanned = Cardinality(Permanent) + Cardinality(Ephemeral)
         /\ \A i \in Ephemeral \ Failing(call') :
               RunOut(i) =>
                  /\ \A j \in 1..Len(memories') : memories'[j].id # memories[i].id
                  /\ memories[i].id \in {f.id : f \in forgotten'}
         /\ call'.ret.expired = Cardinality({i \in Ephemeral \ Failing(call') : RunOut(i)})
         /\ call'.ret.active_ephemeral = Cardinality({i \in Ephemeral : ~RunOut(i)})]_vars

\* store.forget raised for the first of two expired messages; the sweep went on,
\* deleted the second and returned with one error and one expired
C23_Witness ==
    /\ call.op = "sweep"
    /\ call.ret.returned
    /\ 1 \in DOMAIN call.arg.faults
    /\ call.arg.faults[1] = "forget_raises"
    /\ call.ret.errors = 1
    /\ call.ret.expired = 1
    /\ \E f \in forgotten : f.id = 2

(***************************************************************************)
(* Properties of a sweep that runs while messages are stored.              *)
(***************************************************************************)
\* the ids of the memories the running sweep listed when it started
Listed == {sw_messages[i].id : i \in 1..Len(sw_messages)}

\* C24: a sweep that runs while messages are stored touches only memories of the
\* list it took when it started.  A memory stored after that is left as it is by
\* every step of the sweep, is not forgotten and gets no tombstone, and a read of
\* its thread returns it; and whatever the sweep deletes has a ttl that has run
\* out.
C24_SweepTouchesOnlyListed ==
    [][/\ call'.op = "sweep_step" =>
            /\ \A i \in 1..Len(memories) :
                  memories[i].id \notin Listed =>
                     /\ \E j \in 1..Len(memories') : memories'[j] = memories[i]
                     /\ memories[i].id \notin {f.id : f \in forgotten'}
                     /\ \A j \in 1..Len(memories') :
                           (TOMBSTONE_TAG \in memories'[j].tags /\ memories'[j].id >= next_id)
                              => memories'[j].metadata.original_id # memories[i].id
            /\ \A i \in 1..Len(memories) :
                  (\A j \in 1..Len(memories') : memories'[j].id # memories[i].id) =>
                     /\ memories[i].metadata.ttl # NoTtl
                     /\ now >= memories[i].created_at + memories[i].metadata.ttl[1]
       /\ call'.op = "get_thread_messages" =>
            \A i \in 1..Len(memories) :
               (/\ MESSAGE_TAG \in memories[i].tags
                /\ THREAD_TAG_PREFIX \o call'.arg \in memories[i].tags
                /\ sw_pc = "listed"
                /\ memories[i].id \notin Listed)
                  => \E k \in 1..Len(call'.ret) : call'.ret[k].memory_id = memories[i].id]_vars

\* a step of a sweep has deleted a listed message while a message that was stored
\* after the sweep had started, and whose ttl has run out by now, is still stored
C24_Witness ==
    /\ call.op = "sweep_step"
    /\ forgotten # {}
    /\ \E i \in 1..Len(memories) :
          /\ MESSAGE_TAG \in memories[i].tags
          /\ memories[i].id \notin Listed
          /\ memories[i].metadata.ttl # NoTtl
          /\ now >= memories[i].created_at + memories[i].metadata.ttl[1]

(***************************************************************************)
(* Properties of the group message cipher.                                 *)
(***************************************************************************)
\* the call c is decrypt
Decrypted(c) == c.op = "decrypt"

\* C25 as claimed: decrypt of an output of encrypt(P, S) returns P under S and
\* fails with the group decryption error under any other key, and decrypt of an
\* output that was altered in any way fails with the group decryption error.
C25_AlteredNeverOpens ==
    [][Decrypted(call') =>
         \A i \in 1..Len(sealed) :
            /\ call'.arg.encrypted_b64 = sealed[i].output =>
                  call'.ret = IF call'.arg.group_key_hex = sealed[i].key
                              THEN sealed[i].plaintext
                              ELSE GroupDecryptionError
            /\ call'.arg.encrypted_b64 \in Tampered(sealed[i].output)
                                               \cup {Wrapped(sealed[i].output)} =>
                  call'.ret = GroupDecryptionError]_vars

\* C25: decrypt of an output of encrypt(P, S) returns P under S and fails with the
\* group decryption error under any other key.  Decrypt of an altered output
\* fails with that error when the alteration changes the bytes that base64
\* decoding yields (nonce, ciphertext or tag); an alteration of the text that
\* decoding discards leaves the result as it is for the unaltered output.  In
\* no case does decrypt return a value other than P.
C25_RoundTrip ==
    [][Decrypted(call') =>
         \A i \in 1..Len(sealed) :
            LET given == call'.arg.encrypted_b64
                opened == IF call'.arg.group_key_hex = sealed[i].key
                          THEN sealed[i].plaintext
                          ELSE GroupDecryptionError
            IN  /\ given = sealed[i].output => call'.ret = opened
                /\ given \in Tampered(sealed[i].output) => call'.ret = GroupDecryptionError
                /\ given = Wrapped(sealed[i].output) => call'.ret = opened
                /\ given \in {sealed[i].output, Wrapped(sealed[i].output)}
                               \cup Tampered(sealed[i].output) =>
                      call'.ret \in {sealed[i].plaintext, GroupDecryptionError}]_vars

\* decrypt has returned the plaintext of an output that reached it with a line
\* break appended, and another output was made under the other key
C25_Witness ==
    /\ Decrypted(call)
    /\ Len(sealed) = 2
    /\ sealed[1].key # sealed[2].key
    /\ call.arg.encrypted_b64 = Wrapped(sealed[1].output)
    /\ call.ret = sealed[1].plaintext

\* C29: two encrypt calls never return the same output, also for the same
\* plaintext and key; each output carries a nonce of 12 bytes that was drawn
\* during its call, and no two outputs made under one key carry the same nonce.
\* The call takes the plaintext and the key and nothing else.
C29_NonceNeverReused ==
    /\ \A i, j \in 1..Len(sealed) :
          i # j =>
             /\ sealed[i].output # sealed[j].output
             /\ sealed[i].key = sealed[j].key =>
                   b64decode(sealed[i].output).nonce # b64decode(sealed[j].output).nonce
    /\ \A i \in 1..Len(sealed) :
          /\ b64decode(sealed[i].output).nonce.bytes = 12
          /\ b64decode(sealed[i].output).nonce.value <= entropy
    /\ call.op = "encrypt" => DOMAIN call.arg = {"plaintext", "group_key_hex"}

\* the same plaintext was encrypted twice under the same key
C29_Witness ==
    /\ Len(sealed) = 2
    /\ sealed[1].plaintext = sealed[2].plaintext
    /\ sealed[1].key = sealed[2].key
    /\ call.op = "encrypt"

(***************************************************************************)
(* Properties of ChatCrypto.                                               *)
(***************************************************************************)
\* C26: when the engine of A encrypts a plaintext message P to the public key of
\* B, the result is marked encrypted and its content differs from the content of
\* P; and when the engine that holds the private key of B decrypts that result,
\* it returns a message with the content of P that is not marked encrypted.
C26_EncryptDecryptRoundTrip ==
    [][(/\ call'.op = "decrypt_message"
        /\ call.op = "encrypt_message"
        /\ ~call.arg.message.encrypted
        /\ call.ret # Raised("EncryptionError")
        /\ call'.arg.message = call.ret
        /\ call'.arg.crypto = call.arg.recipient_public_armor) =>
         /\ call.ret.encrypted
         /\ call.ret.content # call.arg.message.content
         /\ call'.ret # Raised("DecryptionError")
         /\ call'.ret.content = call.arg.message.content
         /\ ~call'.ret.encrypted]_vars

\* the engine of bob has decrypted what the engine of alice had encrypted to the
\* key of bob
C26_Witness ==
    /\ call.op = "decrypt_message"
    /\ call.arg.crypto = "bob"
    /\ call.arg.message.encrypted
    /\ call.arg.message.signature = [signed_with |-> "alice", over |-> "hello"]
    /\ call.ret # Raised("DecryptionError")
    /\ call.ret.content = "hello"
    /\ ~call.ret.encrypted

\* C27: encrypt_message on a message that is marked encrypted returns that very
\* message, and decrypt_message on a message that is not marked encrypted
\* returns that very message: no error is raised, whatever the recipient key
\* and whatever the engine.
C27_NoOpOnMarkedMessages ==
    [][/\ (call'.op = "encrypt_message" /\ call'.arg.message.encrypted) =>
             (call'.ret = call'.arg.message /\ produced' = produced)
       /\ (call'.op = "decrypt_message" /\ ~call'.arg.message.encrypted) =>
             (call'.ret = call'.arg.message /\ produced' = produced)]_vars

\* an encrypted message was given to encrypt_message again, with text that is no
\* key and an engine whose passphrase is wrong, and came back as it was
C27_Witness ==
    /\ call.op = "encrypt_message"
    /\ call.arg.message.encrypted
    /\ pgp_opens(call.arg.message.content, "bob")
    /\ call.arg.crypto = "locked"
    /\ call.arg.recipient_public_armor = "not a key"
    /\ call.ret = call.arg.message

\* C28: verify_signature returns a boolean, never an error: False when the message
\* has no signature, when the signature field is no signature, when the key text
\* is no key and when the signature was made by another key; True when the
\* message is the one sign_message has just returned and the key is the public
\* key of the engine that signed.
C28_VerifyIsTotal ==
    [][call'.op = "verify_signature" =>
         LET message == call'.arg.message
             armor == call'.arg.sender_public_armor
         IN  /\ call'.ret \in BOOLEAN
             /\ message.signature = None => call'.ret = FALSE
             /\ message.signature = MalformedSignature => call'.ret = FALSE
             /\ ~is_pgp_key(armor) => call'.ret = FALSE
             /\ (/\ message.signature \notin {None, MalformedSignature}
                 /\ message.signature.signed_with # armor) => call'.ret = FALSE
             /\ (/\ call.op = "sign_message"
                 /\ call.ret = message
                 /\ call.arg.crypto = armor) => call'.ret = TRUE]_vars

\* the signature that the engine of alice made with sign_message over an
\* encrypted message was verified against the public key of alice
C28_Witness ==
    /\ call.op = "verify_signature"
    /\ call.ret = TRUE
    /\ call.arg.sender_public_armor = "alice"
    /\ call.arg.message.encrypted
    /\ call.arg.message.signature.over = call.arg.message.content

(***************************************************************************)
(* Properties of the group, continued.                                     *)
(***************************************************************************)
\* C31: the group that create returns has key_version 1 and exactly one member,
\* the creator, whose role is admin; its group_key is the one value drawn from
\* the entropy source so far, 32 bytes written as 64 hex characters, and it is
\* the only key installed.
C31_CreatedGroup ==
    call.op = "create" =>
       /\ key_version = 1
       /\ Len(members) = 1
       /\ members[1].identity_uri = call.arg
       /\ members[1].role = "admin"
       /\ \A i \in 1..Len(members) : members[i].role = "admin" => i = 1
       /\ group_key = entropy
       /\ keyLog = <<<<1, group_key>>>>
       /\ hex_length(GROUP_KEY_BYTES) = 64

\* the group bob has created
C31_Witness ==
    /\ call.op = "create"
    /\ call.arg = "bob"
    /\ member_uris(members) = <<"bob">>
    /\ is_admin(members, "bob")

\* C38 as claimed: in every state reached from create by add_member,
\* remove_member and set_tool_scope some member has the role admin.
C38_AdminAlwaysExists ==
    \E i \in 1..Len(members) : members[i].role = "admin"

(***************************************************************************)
(* Properties of the file transfer, continued.                             *)
(***************************************************************************)
\* C36 as claimed: whenever is_complete holds for a registered transfer, the
\* sequence numbers stored are exactly 0 .. total_chunks - 1, and every stored
\* chunk carries the total_chunks of the registered session.
C36_CompleteMeansAllPresent ==
    (receiver_transfers # None /\ is_complete) =>
       /\ sequences(receiver_chunks) = 0..(receiver_transfers.total_chunks - 1)
       /\ \A i \in 1..Len(receiver_chunks) :
             receiver_chunks[i].total_chunks = receiver_transfers.total_chunks

\* C32: when receive_chunk is called concurrently with chunks of distinct
\* sequence numbers, each call returns True, and every chunk for which it has
\* returned True is in the chunk dict of the transfer as it was delivered; the
\* dict holds one chunk per sequence number stored.  This holds also when the
\* calls are the first for a transfer that has no entry in the dict.
C32_NoLostInsertion ==
    /\ call.op = "receive_chunk" => call.ret = TRUE
    /\ rc_accepted \subseteq sequences(receiver_chunks)
    /\ Len(receiver_chunks) = Cardinality(sequences(receiver_chunks))
    /\ Len(receiver_chunks) = Cardinality(rc_accepted)
    /\ \A i \in 1..Len(receiver_chunks) : receiver_chunks[i] \in Range(sent)

\* two calls ran interleaved from their start on a transfer without entry: the
\* second entered before the first had stored its chunk, and both chunks are
\* stored
C32_Witness ==
    /\ rc_accepted = {0, 1}
    /\ Len(receiver_chunks) = 2
    /\ call.op = "receive_chunk"
    /\ \A d \in Deliverers : rc_chunk[d] # None /\ rc_pc[d] = "idle"
    /\ rc_chunk["d1"].sequence # rc_chunk["d2"].sequence

\* C37: whatever sweeps have run with create_tombstones, the store holds at most
\* one tombstone for an original memory id.
C37_OneTombstonePerId ==
    \A i, j \in 1..Len(memories) :
        (/\ TOMBSTONE_TAG \in memories[i].tags
         /\ TOMBSTONE_TAG \in memories[j].tags
         /\ memories[i].metadata.original_id = memories[j].metadata.original_id) => i = j

\* C40: applying the event of a peer adds nothing to the event log of the
\* manager that applies it: its pending events are the same before and after
\* apply_event.
C40_ApplyLogsNothing ==
    [][call'.op = "apply_event" =>
          managers'[call'.arg.peer].event_log = managers[call'.arg.peer].event_log]_vars

\* C33: when poll_inbox is given the public key of the sender, a message whose
\* signature was made by another key is not accepted: it is not among the
\* messages poll_inbox returns and it is not stored in the history.
C33_ForgedNotAccepted ==
    [][(call'.op = "poll_inbox" /\ call'.arg.sender_public_armor = "alice"
           /\ call'.arg.crypto # "none")
        => LET forged == {i \in 1..Len(wire) :
                             /\ model_validate_json(wire[i]).signature # None
                             /\ model_validate_json(wire[i]).signature.signed_with # "alice"}
           IN  /\ \A i \in 1..Len(call'.ret) :
                     call'.ret[i].signature # None
                        => call'.ret[i].signature.signed_with = "alice"
               /\ Len(call'.ret) <= Len(wire) - Cardinality(forged)
               /\ Len(inbox') <= Len(inbox) + Len(wire) - Cardinality(forged)]_vars

\* C34: a message that send_message encrypted to bob and signed, that arrives as
\* it was sent and that bob polls with his private key and the public key of
\* alice, is returned with the content it was composed with and with
\* signature_valid = True.
C34_HonestRoundTrip ==
    [][(call'.op = "poll_inbox" /\ call'.arg.sender_public_armor = "alice"
           /\ call'.arg.crypto = "bob")
        => \A i \in 1..Len(wire) :
              LET on_wire == model_validate_json(wire[i])
              IN  (/\ on_wire.encrypted
                   /\ on_wire.signature # None
                   /\ on_wire.signature.signed_with = "alice")
                  => /\ call'.ret[i].content \in Plaintexts
                     /\ ~call'.ret[i].encrypted
                     /\ <<"signature_valid", TRUE>> \in call'.ret[i].metadata]_vars

\* C35: reject_if_expired returns true exactly for a message that has a TTL and
\* is past it, and poll_inbox stores no message that is past its TTL when it
\* arrives.
C35_ExpiredRejectedOnReceive ==
    [][/\ call'.op = "is_expired"
          => call'.ret.reject = (/\ call'.arg.ttl # NoTtl
                                 /\ now >= call'.arg.timestamp + call'.arg.ttl[1])
       /\ call'.op = "poll_inbox"
          => \A i \in 1..Len(wire) :
                LET on_wire == model_validate_json(wire[i])
                IN  (on_wire.ttl # NoTtl /\ now >= on_wire.timestamp + on_wire.ttl[1])
                    => Len(inbox') < Len(inbox) + Len(wire)]_vars

\* C39: MessageReaper.is_expired, ChatMessage.is_expired and the test of sweep
\* give the same answer for every message at every instant, and a message
\* without TTL is never expired.
C39_ExpiryTestsAgree ==
    call.op = "is_expired" =>
       /\ call.ret.reaper = call.ret.message
       /\ call.ret.reaper = call.ret.sweep
       /\ call.arg.ttl = NoTtl => ~call.ret.reaper

=============================================================================
